---- MODULE Spec2Model ----
(***************************************************************************)
(* Farm relay servers of Henry-94/finale_ferme.                            *)
(*                                                                         *)
(* src/serveur_fin.js holds two servers: lines 1-308 (arrays for the       *)
(* devices, pendingAlerts, timers; prefix s1_/S1_ here) and lines 310-583  *)
(* (Map-based registry, MAX_QUEUE_SIZE; prefix s2_/S2_ here);              *)
(* src/unnamed/part_002 holds a third, with one slot per ESP role (prefix  *)
(* p2_/P2_ here); src/unnamed/part_001 holds a fourth, with arrays and no  *)
(* command queue (prefix p1_/P1_ here).  Each server                       *)
(* is a state machine over its registry, its queues and the state of each  *)
(* WebSocket; one action per event handler, the whole handler at once      *)
(* (Node runs a handler to completion).                                    *)
(*                                                                         *)
(* What a handler sends is recorded per event: s?_sent[c] is the sequence  *)
(* of frames the last handled event wrote to connection c, in order, a     *)
(* socket.close(code) call being recorded as a frame of type "close".      *)
(* s?_last names the last handled event.                                   *)
(***************************************************************************)
EXTENDS Integers, Sequences, FiniteSets, TLC

\* ------------------------------------------------------------------ bounds
\* Connections accepted during a run (each gets a fresh clientId).
NConn == 2
\* From empty queues, a queue is explored up to MaxQueue items.
MaxQueue == 2
\* Frames of a peer still handled after the server called close() on it.
MaxInflight == 1
\* References to sockets the two device arrays of the first server hold at
\* most, taken together.
MaxArray == 2
\* how far past MAX_QUEUE_SIZE the length of a queue is followed
MaxOver == 1

Conn == 1 .. NConn

\* ------------------------------------------------------- program constants
MAX_QUEUE_SIZE == 50

\* The null passed as androidSocket (no connection has this id).
NoSocket == 0

\* ------------------------------------------------------------------ inputs
\* device strings of a register message: the three roles and an unknown one
Devices == {"android", "esp32-cam", "esp32-standard", "toaster"}
DeviceRoles == {"esp32-cam", "esp32-standard"}
\* commands an android sends: one with params, one without (params || {})
AndroidCommands ==
    { [type |-> "network_config", params |-> "ssid"],
      [type |-> "security_config", params |-> "missing"] }
AlertMsgs == {"intrusion"}
Photos == {"img1", "img2"}
\* JSON types that no branch handles
OtherTypes == {"status"}

\* ------------------------------------------------------------------ frames
Msg(type, body) == [type |-> type, body |-> body]
Command(type, params) == [type |-> type, params |-> params]
BoolStr(b) == IF b THEN "true" ELSE "false"
\* k copies of x
Fill(k, x) == [i \in 1 .. k |-> x]
\* the explored lengths of a queue: at most low, or from one below capacity
\* to MaxOver above it
InWindow(q, low) ==
    \/ Len(q) <= low
    \/ Len(q) >= MAX_QUEUE_SIZE - 1 /\ Len(q) <= MAX_QUEUE_SIZE + MaxOver

VARIABLES
    \* ---- first server (src/serveur_fin.js 1-308)
    s1_readyState,   \* socket.readyState, "NONE" before the connection event
    s1_inflight,     \* frames the peer sent before it saw the server's close
                     \* frame, still to be handled (0 while OPEN)
    s1_clientType,   \* socket.clientType
    s1_regTimer,     \* registrationTimeout: "none", "armed" or "off"
    s1_pingTimer,    \* pingInterval: "none", "on" or "off"
    s1_androids,     \* clients.androids (keys of the Map)
    s1_espCams,      \* clients.espCams, an array of sockets
    s1_espStandards, \* clients.espStandards, an array of sockets
    s1_espCamCommandsQueue,
    s1_espStandardCommandsQueue,
    s1_pendingAlerts,
    s1_now,          \* Date.now(), in ms since the server started (fixed
                     \* by the initial state: the events of a run are
                     \* handled within one clock reading)
    s1_sent,         \* frames written by the last handled event, per socket
    s1_last,         \* the last handled event
    \* ---- second server (src/serveur_fin.js 310-583)
    s2_readyState,   \* socket.readyState, "NONE" before the connection event
    s2_inflight,     \* frames the peer sent before it saw the server's close
                     \* frame, still to be handled (0 while OPEN)
    s2_clientType,   \* socket.clientType
    s2_androids,     \* clients.androids   (keys of the Map)
    s2_espCams,      \* clients.espCams
    s2_espStandards, \* clients.espStandards
    s2_photoQueue,
    s2_espCamCommandsQueue,
    s2_espStandardCommandsQueue,
    s2_sent,         \* frames written by the last handled event, per socket
    s2_last,         \* the last handled event
    s2_awaiting,     \* alerts received while no android was registered,
                     \* since the last android registration (history)
    \* ---- photo relay server (src/unnamed/part_002)
    p2_readyState,   \* socket.readyState, "NONE" before the connection event
    p2_inflight,     \* frames the peer sent before it saw the server's close
                     \* frame, still to be handled (0 while OPEN)
    p2_clientType,   \* socket.clientType
    p2_androids,     \* clients.androids (keys of the Map)
    p2_espCam,       \* clients.espCam, one socket or null
    p2_espStandard,  \* clients.espStandard, one socket or null
    p2_photoQueue,
    p2_espCamConnected,
    p2_espStandardConnected,
    p2_crashed,      \* an exception left a listener: the process has exited
    p2_sent,         \* frames written by the last handled event, per socket
    p2_last,         \* the last handled event
    \* ---- first relay server (src/unnamed/part_001)
    p1_readyState,   \* socket.readyState, "NONE" before the connection event
    p1_pingTimer,    \* pingInterval: "none", "on" or "off"
    p1_androids,     \* clients.androids (keys of the Map)
    p1_espCams,      \* clients.espCams, an array of sockets
    p1_espStandards, \* clients.espStandards, an array of sockets
    p1_pendingAlerts,
    p1_sent,         \* frames written by the last handled event, per socket
    p1_last          \* the last handled event

vars2 == << s2_readyState, s2_inflight, s2_clientType, s2_androids, s2_espCams,
            s2_espStandards, s2_photoQueue, s2_espCamCommandsQueue,
            s2_espStandardCommandsQueue, s2_sent, s2_last, s2_awaiting >>

vars1 == << s1_readyState, s1_inflight, s1_clientType, s1_regTimer, s1_pingTimer,
            s1_androids, s1_espCams, s1_espStandards, s1_espCamCommandsQueue,
            s1_espStandardCommandsQueue, s1_pendingAlerts, s1_now, s1_sent, s1_last >>

varsP2 == << p2_readyState, p2_inflight, p2_clientType, p2_androids, p2_espCam,
             p2_espStandard, p2_photoQueue, p2_espCamConnected,
             p2_espStandardConnected, p2_crashed, p2_sent, p2_last >>

varsP1 == << p1_readyState, p1_pingTimer, p1_androids, p1_espCams, p1_espStandards,
             p1_pendingAlerts, p1_sent, p1_last >>

vars == << vars1, vars2, varsP2, varsP1 >>

\* what the events of one server leave alone: the other servers
otherThan1 == << vars2, varsP2, varsP1 >>
otherThan2 == << vars1, varsP2, varsP1 >>
otherThanP2 == << vars1, vars2, varsP1 >>
otherThanP1 == << vars1, vars2, varsP2 >>

NoneSent == [c \in Conn |-> << >>]
\* An event: its kind, its connection, the input its handler used (the device
\* of a register, the photo or alert of an accepted frame, the type of a
\* command) and, for a register, the clientType the connection had before.
Event(kind, conn, arg, was) == [kind |-> kind, conn |-> conn, arg |-> arg, was |-> was]

(***************************************************************************)
(*                 Second server: src/serveur_fin.js 310-583               *)
(***************************************************************************)

S2_Open(c) == s2_readyState[c] = "OPEN"

\* sendJsonMessage: writes only to an OPEN socket and says whether it did.
S2_sendJsonMessage(out, socket, type, body) ==
    IF socket # NoSocket /\ S2_Open(socket)
    THEN [ok |-> TRUE, out |-> [out EXCEPT ![socket] = Append(@, Msg(type, body))]]
    ELSE [ok |-> FALSE, out |-> out]

\* map.forEach(client => sendJsonMessage(client.socket, type, body))
S2_sendToEach(out, members, type, body) ==
    [c \in Conn |-> IF c \in members THEN S2_sendJsonMessage(out, c, type, body).out[c]
                                     ELSE out[c]]

\* broadcastEspStatus, for the registry as given
S2_broadcastEspStatus(out, androids, espCams, espStandards) ==
    S2_sendToEach(out, androids, "esp_status",
                  << BoolStr(espCams # {}), BoolStr(espStandards # {}),
                     BoolStr(espCams # {} \/ espStandards # {}) >>)

\* bug: the old reference is not removed
S2_withoutClient_kept(members, c) == members

\* clients.<map>.delete(clientId)
S2_withoutClient(members, c) == members \ {c}

\* bug: the two words swapped
S2_outcome_swapped(sentTo) == IF sentTo THEN "Queue" ELSE "OK"

\* sentTo ? 'OK' : 'Queue'
S2_outcome(sentTo) == IF sentTo THEN "OK" ELSE "Queue"

\* bug: push without the capacity test
S2_pushIfRoom_unguarded(queue, item) == Append(queue, item)

\* push guarded by MAX_QUEUE_SIZE
S2_pushIfRoom(queue, item) ==
    IF Len(queue) < MAX_QUEUE_SIZE THEN Append(queue, item) ELSE queue

\* distributeCommand: send to every ESP of both maps, queue per role when none
\* took it, answer the android when there is one.
S2_distributeCommand(out, type, params, androidSocket) ==
    LET command == Command(type, params)
        sentToCam == \E c \in s2_espCams : S2_sendJsonMessage(out, c, type, << params >>).ok
        sentToStd == \E c \in s2_espStandards : S2_sendJsonMessage(out, c, type, << params >>).ok
        out1 == S2_sendToEach(out, s2_espCams, type, << params >>)
        out2 == S2_sendToEach(out1, s2_espStandards, type, << params >>)
        out3 == IF androidSocket # NoSocket
                THEN S2_sendJsonMessage(out2, androidSocket, "command_response",
                        << type, S2_outcome(sentToCam), S2_outcome(sentToStd) >>).out
                ELSE out2
    IN  [ camQ |-> IF ~sentToCam THEN S2_pushIfRoom(s2_espCamCommandsQueue, command)
                                 ELSE s2_espCamCommandsQueue,
          stdQ |-> IF ~sentToStd THEN S2_pushIfRoom(s2_espStandardCommandsQueue, command)
                                 ELSE s2_espStandardCommandsQueue,
          out  |-> out3 ]

\* the frames of a queue of commands, in queue order
CommandFrames(queue) == [i \in DOMAIN queue |-> Msg(queue[i].type, << queue[i].params >>)]
PhotoFrames(queue) == [i \in DOMAIN queue |-> Msg("binary", << queue[i] >>)]

\* sendQueuedCommands: shift every command, sendJsonMessage each
S2_sendQueuedCommands(out, espSocket, queue) ==
    IF S2_Open(espSocket)
    THEN [out EXCEPT ![espSocket] = @ \o CommandFrames(queue)]
    ELSE out

\* params || {}
ParamsOrEmpty(p) == IF p = "missing" THEN "{}" ELSE p

\* The state after construction, but for the queues, which are given.
S2_InitWith(photos, camCommands, stdCommands) ==
    /\ s2_readyState = [c \in Conn |-> "NONE"]
    /\ s2_inflight = [c \in Conn |-> 0]
    /\ s2_clientType = [c \in Conn |-> "null"]
    /\ s2_androids = {}
    /\ s2_espCams = {}
    /\ s2_espStandards = {}
    /\ s2_photoQueue = photos
    /\ s2_espCamCommandsQueue = camCommands
    /\ s2_espStandardCommandsQueue = stdCommands
    /\ s2_sent = NoneSent
    /\ s2_last = Event("init", NoSocket, "", "")
    /\ s2_awaiting = {}

\* the server as constructed: empty registry, empty queues
S2_Init == S2_InitWith(<< >>, << >>, << >>)

\* The server after one connection, closed since, has left every queue one
\* item below MAX_QUEUE_SIZE: it registered an unknown device and was closed by
\* the server, and the frames it had written before, a register as esp32-cam
\* and MAX_QUEUE_SIZE - 1 photos, were handled while its socket was CLOSING.
\* No android took a photo and no OPEN ESP took a turn_on_light.
S2_InitNearFull ==
    S2_InitWith(Fill(MAX_QUEUE_SIZE - 1, "img1"),
                Fill(MAX_QUEUE_SIZE - 1, Command("turn_on_light", "alert_image")),
                Fill(MAX_QUEUE_SIZE - 1, Command("turn_on_light", "alert_image")))

\* a frame from the peer can be handled
S2_Receiving(c) ==
    \/ s2_readyState[c] = "OPEN"
    \/ s2_readyState[c] = "CLOSING" /\ s2_inflight[c] > 0

\* one frame of c has been handled
S2_Handled(c) ==
    [s2_inflight EXCEPT ![c] = IF s2_readyState[c] = "CLOSING" THEN @ - 1 ELSE @]

\* wss.on('connection')
S2_Connect(c) ==
    /\ UNCHANGED otherThan2
    /\ s2_readyState[c] = "NONE"
    \* connections are numbered in the order they are accepted
    /\ \A b \in Conn : b < c => s2_readyState[b] # "NONE"
    /\ s2_readyState' = [s2_readyState EXCEPT ![c] = "OPEN"]
    /\ s2_inflight' = [s2_inflight EXCEPT ![c] = 0]
    /\ s2_clientType' = [s2_clientType EXCEPT ![c] = "null"]
    /\ s2_sent' = NoneSent
    /\ s2_last' = Event("connect", c, "", "")
    /\ UNCHANGED << s2_androids, s2_espCams, s2_espStandards, s2_photoQueue,
                    s2_espCamCommandsQueue, s2_espStandardCommandsQueue, s2_awaiting >>

\* The peer starts the closing handshake (or its link drops): the socket
\* leaves OPEN before its 'close' event is handled.
S2_PeerCloses(c) ==
    /\ UNCHANGED otherThan2
    /\ s2_readyState[c] = "OPEN"
    /\ s2_readyState' = [s2_readyState EXCEPT ![c] = "CLOSING"]
    /\ UNCHANGED s2_inflight
    /\ s2_sent' = NoneSent
    /\ s2_last' = Event("peercloses", c, "", "")
    /\ UNCHANGED << s2_clientType, s2_androids, s2_espCams, s2_espStandards,
                    s2_photoQueue, s2_espCamCommandsQueue,
                    s2_espStandardCommandsQueue, s2_awaiting >>

\* socket.on('close')
S2_Close(c) ==
    /\ UNCHANGED otherThan2
    /\ s2_readyState[c] \in {"OPEN", "CLOSING"}
    /\ s2_readyState' = [s2_readyState EXCEPT ![c] = "CLOSED"]
    /\ s2_inflight' = [s2_inflight EXCEPT ![c] = 0]
    /\ LET type == s2_clientType[c]
           androids == IF type = "android" THEN S2_withoutClient(s2_androids, c)
                                           ELSE s2_androids
           espCams == IF type = "esp32-cam" THEN S2_withoutClient(s2_espCams, c)
                                            ELSE s2_espCams
           espStandards == IF type = "esp32-standard"
                           THEN S2_withoutClient(s2_espStandards, c)
                           ELSE s2_espStandards
       IN  /\ s2_androids' = androids
           /\ s2_espCams' = espCams
           /\ s2_espStandards' = espStandards
           /\ s2_sent' = IF type \in DeviceRoles
                         THEN [d \in Conn |->
                                 IF d = c THEN << >>
                                 ELSE S2_broadcastEspStatus(NoneSent, androids, espCams,
                                                            espStandards)[d]]
                         ELSE NoneSent
    /\ s2_last' = Event("close", c, "", "")
    /\ UNCHANGED << s2_clientType, s2_photoQueue, s2_espCamCommandsQueue,
                    s2_espStandardCommandsQueue, s2_awaiting >>

\* bug: the photos are sent but not taken off the queue
S2_sendQueuedPhotos_kept(out, androidSocket, throws) ==
    [queue |-> s2_photoQueue,
     out |-> IF S2_Open(androidSocket)
             THEN [out EXCEPT ![androidSocket] = @ \o PhotoFrames(s2_photoQueue)]
             ELSE out]

\* sendQueuedPhotos: androidSocket.send(photo) for every queued photo, not
\* guarded by readyState.  On a socket that is not OPEN the ws library either
\* throws (the handler's catch ends the loop after the first shift) or drops
\* the frame, depending on its version.
S2_sendQueuedPhotos(out, androidSocket, throws) ==
    IF S2_Open(androidSocket)
    THEN [queue |-> << >>,
          out |-> [out EXCEPT ![androidSocket] = @ \o PhotoFrames(s2_photoQueue)]]
    ELSE [queue |-> IF throws /\ s2_photoQueue # << >> THEN Tail(s2_photoQueue)
                                                        ELSE << >>,
          out |-> out]

\* socket.on('message'), type === 'register'
S2_Register(c, device, low) ==
    /\ UNCHANGED otherThan2
    /\ S2_Receiving(c)
    /\ s2_clientType' = [s2_clientType EXCEPT ![c] = device]
    /\ s2_last' = Event("register", c, device, s2_clientType[c])
    /\ LET androids == S2_withoutClient(s2_androids, c)
           espCams == S2_withoutClient(s2_espCams, c)
           espStandards == S2_withoutClient(s2_espStandards, c)
           registered == S2_sendJsonMessage(NoneSent, c, "registered", << >>).out
       IN  CASE device = "android" ->
                  \E throws \in BOOLEAN :
                  LET out1 == S2_broadcastEspStatus(registered, androids \cup {c},
                                                    espCams, espStandards)
                      flush == S2_sendQueuedPhotos(out1, c, throws)
                  IN  /\ s2_androids' = androids \cup {c}
                      /\ s2_espCams' = espCams
                      /\ s2_espStandards' = espStandards
                      /\ s2_photoQueue' = flush.queue
                      /\ InWindow(flush.queue, low)
                      /\ s2_sent' = flush.out
                      /\ s2_awaiting' = {}
                      /\ s2_inflight' = S2_Handled(c)
                      /\ UNCHANGED << s2_readyState, s2_espCamCommandsQueue,
                                      s2_espStandardCommandsQueue >>
             [] device = "esp32-cam" ->
                  LET out1 == S2_sendQueuedCommands(registered, c, s2_espCamCommandsQueue)
                  IN  /\ s2_androids' = androids
                      /\ s2_espCams' = espCams \cup {c}
                      /\ s2_espStandards' = espStandards
                      /\ s2_espCamCommandsQueue' = << >>
                      /\ s2_sent' = S2_broadcastEspStatus(out1, androids,
                                                          espCams \cup {c}, espStandards)
                      /\ s2_inflight' = S2_Handled(c)
                      /\ UNCHANGED << s2_readyState, s2_photoQueue,
                                      s2_espStandardCommandsQueue, s2_awaiting >>
             [] device = "esp32-standard" ->
                  LET out1 == S2_sendQueuedCommands(registered, c,
                                                    s2_espStandardCommandsQueue)
                  IN  /\ s2_androids' = androids
                      /\ s2_espCams' = espCams
                      /\ s2_espStandards' = espStandards \cup {c}
                      /\ s2_espStandardCommandsQueue' = << >>
                      /\ s2_sent' = S2_broadcastEspStatus(out1, androids, espCams,
                                                          espStandards \cup {c})
                      /\ s2_inflight' = S2_Handled(c)
                      /\ UNCHANGED << s2_readyState, s2_photoQueue,
                                      s2_espCamCommandsQueue, s2_awaiting >>
             [] OTHER ->
                  \* socket.close(1000, 'Type de dispositif inconnu')
                  /\ s2_androids' = androids
                  /\ s2_espCams' = espCams
                  /\ s2_espStandards' = espStandards
                  /\ s2_readyState' = [s2_readyState EXCEPT ![c] = "CLOSING"]
                  /\ IF S2_Open(c)
                     THEN \E k \in 0 .. MaxInflight :
                             s2_inflight' = [s2_inflight EXCEPT ![c] = k]
                     ELSE s2_inflight' = S2_Handled(c)
                  /\ s2_sent' = IF S2_Open(c)
                                THEN [NoneSent EXCEPT ![c] = << Msg("close", << "1000" >>) >>]
                                ELSE NoneSent
                  /\ UNCHANGED << s2_photoQueue, s2_espCamCommandsQueue,
                                  s2_espStandardCommandsQueue, s2_awaiting >>

\* bug: the binary branch without its test of the sender's role
S2_isCam_any(c) == TRUE

\* the binary branch's test: socket.clientType === 'esp32-cam'
S2_isCam(c) == s2_clientType[c] = "esp32-cam"

\* socket.on('message'), Buffer.isBuffer(data): a binary frame (a text frame
\* reaches the handler as a string and goes on to JSON.parse)
S2_Binary(c, photo, low) ==
    /\ UNCHANGED otherThan2
    /\ S2_Receiving(c)
    /\ s2_last' = Event("binary", c, IF S2_isCam(c) THEN photo ELSE "", "")
    /\ IF ~ S2_isCam(c)
       THEN /\ s2_sent' = NoneSent
            /\ UNCHANGED << s2_photoQueue, s2_espCamCommandsQueue,
                            s2_espStandardCommandsQueue >>
       ELSE LET sentToAndroid == \E a \in s2_androids : S2_Open(a)
                out1 == [a \in Conn |-> IF a \in s2_androids /\ S2_Open(a)
                                        THEN << Msg("binary", << photo >>) >>
                                        ELSE << >>]
                dist == S2_distributeCommand(out1, "turn_on_light", "alert_image", NoSocket)
            IN  /\ s2_photoQueue' = IF ~sentToAndroid
                                    THEN S2_pushIfRoom(s2_photoQueue, photo)
                                    ELSE s2_photoQueue
                /\ s2_espCamCommandsQueue' = dist.camQ
                /\ s2_espStandardCommandsQueue' = dist.stdQ
                /\ s2_sent' = dist.out
    /\ InWindow(s2_photoQueue', low) /\ InWindow(s2_espCamCommandsQueue', low)
    /\ InWindow(s2_espStandardCommandsQueue', low)
    /\ s2_inflight' = S2_Handled(c)
    /\ UNCHANGED << s2_readyState, s2_clientType, s2_androids,
                    s2_espCams, s2_espStandards, s2_awaiting >>

\* bug: the command branch without its test of the sender's role
S2_isAndroid_any(c) == TRUE

\* the command branch's test: socket.clientType === 'android'
S2_isAndroid(c) == s2_clientType[c] = "android"

\* socket.on('message'), network_config / security_config
S2_CommandMsg(c, cmd, low) ==
    /\ UNCHANGED otherThan2
    /\ S2_Receiving(c)
    /\ s2_last' = Event("command", c, IF S2_isAndroid(c) THEN cmd.type ELSE "", "")
    /\ IF S2_isAndroid(c)
       THEN LET dist == S2_distributeCommand(NoneSent, cmd.type,
                                             ParamsOrEmpty(cmd.params), c)
            IN  /\ s2_espCamCommandsQueue' = dist.camQ
                /\ s2_espStandardCommandsQueue' = dist.stdQ
                /\ s2_sent' = dist.out
       ELSE \* unregistered: ignored; another role: "Message non géré"
            /\ s2_sent' = NoneSent
            /\ UNCHANGED << s2_espCamCommandsQueue, s2_espStandardCommandsQueue >>
    /\ InWindow(s2_espCamCommandsQueue', low) /\ InWindow(s2_espStandardCommandsQueue', low)
    /\ s2_inflight' = S2_Handled(c)
    /\ UNCHANGED << s2_readyState, s2_clientType, s2_androids,
                    s2_espCams, s2_espStandards, s2_photoQueue, s2_awaiting >>

\* socket.on('message'), type === 'alert'
S2_AlertMsg(c, m, low) ==
    /\ UNCHANGED otherThan2
    /\ S2_Receiving(c)
    /\ s2_last' = Event("alert", c, IF s2_clientType[c] \in DeviceRoles THEN m ELSE "", "")
    /\ IF s2_clientType[c] \in DeviceRoles
       THEN LET out1 == S2_sendToEach(NoneSent, s2_androids, "alert", << m >>)
                dist == S2_distributeCommand(out1, "turn_on_light", "alert_detected",
                                             NoSocket)
            IN  /\ s2_espCamCommandsQueue' = dist.camQ
                /\ s2_espStandardCommandsQueue' = dist.stdQ
                /\ s2_sent' = dist.out
                /\ s2_awaiting' = IF s2_androids = {} THEN s2_awaiting \cup {m}
                                                      ELSE s2_awaiting
       ELSE /\ s2_sent' = NoneSent
            /\ UNCHANGED << s2_espCamCommandsQueue, s2_espStandardCommandsQueue,
                            s2_awaiting >>
    /\ InWindow(s2_espCamCommandsQueue', low) /\ InWindow(s2_espStandardCommandsQueue', low)
    /\ s2_inflight' = S2_Handled(c)
    /\ UNCHANGED << s2_readyState, s2_clientType, s2_androids,
                    s2_espCams, s2_espStandards, s2_photoQueue >>

\* socket.on('message'), type === 'ping'
S2_PingMsg(c) ==
    /\ UNCHANGED otherThan2
    /\ S2_Receiving(c)
    /\ s2_last' = Event("ping", c, "", "")
    /\ s2_sent' = IF s2_clientType[c] # "null"
                  THEN S2_sendJsonMessage(NoneSent, c, "pong", << >>).out
                  ELSE NoneSent
    /\ s2_inflight' = S2_Handled(c)
    /\ UNCHANGED << s2_readyState, s2_clientType, s2_androids,
                    s2_espCams, s2_espStandards, s2_photoQueue,
                    s2_espCamCommandsQueue, s2_espStandardCommandsQueue, s2_awaiting >>

\* socket.on('message'): a JSON type no branch handles, or text that is not
\* JSON (JSON.parse throws into the catch): logged only
S2_OtherMsg(c, type) ==
    /\ UNCHANGED otherThan2
    /\ S2_Receiving(c)
    /\ s2_last' = Event("other", c, "", "")
    /\ s2_sent' = NoneSent
    /\ s2_inflight' = S2_Handled(c)
    /\ UNCHANGED << s2_readyState, s2_clientType, s2_androids,
                    s2_espCams, s2_espStandards, s2_photoQueue,
                    s2_espCamCommandsQueue, s2_espStandardCommandsQueue, s2_awaiting >>

\* every event of every connection; low bounds the explored queue lengths
S2_Next(low) ==
    \E c \in Conn :
        \/ S2_Connect(c)
        \/ S2_PeerCloses(c)
        \/ S2_Close(c)
        \/ \E device \in Devices : S2_Register(c, device, low)
        \/ \E photo \in Photos : S2_Binary(c, photo, low)
        \/ \E cmd \in AndroidCommands : S2_CommandMsg(c, cmd, low)
        \/ \E m \in AlertMsgs : S2_AlertMsg(c, m, low)
        \/ S2_PingMsg(c)
        \/ \E type \in OtherTypes \cup {"not json"} : S2_OtherMsg(c, type)

(***************************************************************************)
(*                 First server: src/serveur_fin.js 1-308                  *)
(***************************************************************************)

\* const maxAge = 60 * 60 * 1000
maxAge == 3600000

S1_Open(c) == s1_readyState[c] = "OPEN"

\* sendJsonMessage: writes only to an OPEN socket and says whether it did.
S1_sendJsonMessage(out, socket, type, body) ==
    IF S1_Open(socket)
    THEN [ok |-> TRUE, out |-> [out EXCEPT ![socket] = Append(@, Msg(type, body))]]
    ELSE [ok |-> FALSE, out |-> out]

\* the references to socket c an array holds
Count(array, c) == Cardinality({ i \in DOMAIN array : array[i] = c })
\* array.filter(s => s !== socket)
Without(array, c) == SelectSeq(array, LAMBDA s : s # c)

\* array.forEach(s => sendJsonMessage(s, type, body)): one frame per reference
S1_sendToEachOf(out, array, type, body) ==
    [c \in Conn |-> IF S1_Open(c) THEN out[c] \o Fill(Count(array, c), Msg(type, body))
                                  ELSE out[c]]

\* what broadcastAlertToAndroids writes to one OPEN android
S1_alertFrames(message, imageData) ==
    IF imageData # "null"
    THEN << Msg("binary", << imageData >>), Msg("alert", << message >>) >>
    ELSE << Msg("alert", << message >>) >>

\* broadcastAlertToAndroids: to every OPEN android of the map; stored only when
\* the map is empty.
S1_broadcastAlertToAndroids(out, pending, androids, message, imageData) ==
    IF androids # {}
    THEN [pending |-> pending,
          out |-> [a \in Conn |-> IF a \in androids /\ S1_Open(a)
                                  THEN out[a] \o S1_alertFrames(message, imageData)
                                  ELSE out[a]]]
    ELSE [pending |-> Append(pending, [message |-> message, imageData |-> imageData,
                                       timestamp |-> s1_now]),
          out |-> out]

\* what broadcastAlertToAndroids writes to one OPEN android for each alert of
\* a list in turn
RECURSIVE S1_alertFramesOfAll(_)
S1_alertFramesOfAll(alerts) ==
    CASE Len(alerts) = 0 -> << >>
      [] Len(alerts) = 1 -> S1_alertFrames(alerts[1].message, alerts[1].imageData)
      [] OTHER -> S1_alertFramesOfAll(SubSeq(alerts, 1, Len(alerts) \div 2))
                  \o S1_alertFramesOfAll(SubSeq(alerts, Len(alerts) \div 2 + 1, Len(alerts)))

\* alertsToSend.forEach(({message, imageData}) => broadcastAlertToAndroids(...)).
\* The map and the sockets' readyState do not change during the loop, so every
\* call takes the same branch of broadcastAlertToAndroids: each OPEN android
\* is written the frames of every alert in order, or every alert is stored.
S1_broadcastEach(out, pending, androids, alertsToSend) ==
    IF androids # {}
    THEN [pending |-> pending,
          out |-> [a \in Conn |-> IF a \in androids /\ S1_Open(a)
                                  THEN out[a] \o S1_alertFramesOfAll(alertsToSend)
                                  ELSE out[a]]]
    ELSE [pending |-> pending \o
                          [i \in DOMAIN alertsToSend |->
                              [message |-> alertsToSend[i].message,
                               imageData |-> alertsToSend[i].imageData,
                               timestamp |-> s1_now]],
          out |-> out]

\* pendingAlerts.filter(alert => now - alert.timestamp <= maxAge): the array
\* filter builds
S1_notTooOld(pending) == SelectSeq(pending, LAMBDA alert : s1_now - alert.timestamp <= maxAge)

\* bug: the copy is taken from the newest entry to the oldest
S1_filterStatement_reversed(pending) ==
    [i \in DOMAIN pending |-> pending[Len(pending) + 1 - i]]

\* pendingAlerts after the statement `pendingAlerts.filter(...);`, which drops
\* the array filter returns
S1_filterStatement(pending) ==
    LET discarded == S1_notTooOld(pending) IN pending

\* bug: the sweep runs whatever the queue and the map hold
S1_retryReturnsAtOnce_never(pending, androids) == FALSE

\* if (pendingAlerts.length === 0 || clients.androids.size === 0) return;
S1_retryReturnsAtOnce(pending, androids) == pending = << >> \/ androids = {}

\* bug: the copy is sent but `pendingAlerts.length = 0` is missing
S1_retryPendingAlerts_kept(out, pending, androids) ==
    IF S1_retryReturnsAtOnce(pending, androids)
    THEN [pending |-> pending, out |-> out]
    ELSE S1_broadcastEach(out, pending, androids, S1_filterStatement(pending))

\* retryPendingAlerts
S1_retryPendingAlerts(out, pending, androids) ==
    IF S1_retryReturnsAtOnce(pending, androids)
    THEN [pending |-> pending, out |-> out]
    ELSE S1_broadcastEach(out, << >>, androids, S1_filterStatement(pending))

\* broadcastEspStatus(espType, connected)
S1_broadcastEspStatus(out, androids, espType, connected) ==
    [a \in Conn |-> IF a \in androids /\ S1_Open(a)
                    THEN Append(out[a], Msg("esp_status", << espType, BoolStr(connected) >>))
                    ELSE out[a]]

\* one role's half of distributeCommand: send to every socket of the array, or
\* queue when the array is empty
S1_toRole(out, array, queue, type, params) ==
    IF Len(array) > 0
    THEN [sentTo |-> \E i \in DOMAIN array : S1_Open(array[i]),
          queue |-> queue,
          out |-> S1_sendToEachOf(out, array, type, << params >>)]
    ELSE [sentTo |-> FALSE,
          queue |-> Append(queue, Command(type, params)),
          out |-> out]

\* distributeCommand
S1_distributeCommand(out, type, params, androidSocket) ==
    LET cam == S1_toRole(out, s1_espCams, s1_espCamCommandsQueue, type, params)
        std == S1_toRole(cam.out, s1_espStandards, s1_espStandardCommandsQueue, type, params)
    IN  [ camQ |-> cam.queue,
          stdQ |-> std.queue,
          out |-> S1_sendJsonMessage(std.out, androidSocket, "command_response",
                      << type, IF cam.sentTo THEN "OK" ELSE "Queue",
                               IF std.sentTo THEN "OK" ELSE "Queue" >>).out ]

\* data.message || 'Alerte sans message'
MessageOrDefault(m) == IF m = "missing" THEN "Alerte sans message" ELSE m

\* The state after construction, but for the queues and the time, which are
\* given.  Date.now() is taken to stay at `now` during the events of a run.
S1_InitWith(now, pending, camCommands, stdCommands) ==
    /\ s1_readyState = [c \in Conn |-> "NONE"]
    /\ s1_inflight = [c \in Conn |-> 0]
    /\ s1_clientType = [c \in Conn |-> "null"]
    /\ s1_regTimer = [c \in Conn |-> "none"]
    /\ s1_pingTimer = [c \in Conn |-> "none"]
    /\ s1_androids = {}
    /\ s1_espCams = << >>
    /\ s1_espStandards = << >>
    /\ s1_espCamCommandsQueue = camCommands
    /\ s1_espStandardCommandsQueue = stdCommands
    /\ s1_pendingAlerts = pending
    /\ s1_now = now
    /\ s1_sent = NoneSent
    /\ s1_last = Event("init", NoSocket, "", "")

\* the server as constructed
S1_Init == S1_InitWith(0, << >>, << >>, << >>)

S1_Receiving(c) ==
    \/ s1_readyState[c] = "OPEN"
    \/ s1_readyState[c] = "CLOSING" /\ s1_inflight[c] > 0

S1_Handled(c) ==
    [s1_inflight EXCEPT ![c] = IF s1_readyState[c] = "CLOSING" THEN @ - 1 ELSE @]

\* socket.close(1008, 'Non enregistré') of the registration timer
S1_codeNotRegistered == "1008"
\* socket.close(1008, 'Type d\'appareil inconnu') of the register branch
S1_codeUnknownDevice == "1008"

\* socket.close(code, reason) called by a handler on socket c: a "close"
\* frame goes out when the socket was OPEN
S1_closeCall(out, c, code) ==
    IF S1_Open(c) THEN [out EXCEPT ![c] = Append(@, Msg("close", << code >>))] ELSE out

\* bug: the timer is left running
S1_clearTimeout_missing(timers, c) == timers

\* clearTimeout(registrationTimeout) of connection c
S1_clearTimeout(timers, c) == [timers EXCEPT ![c] = "off"]

\* clearInterval(pingInterval) of connection c
S1_clearInterval(timers, c) == [timers EXCEPT ![c] = "off"]

\* wss.on('connection')
S1_Connect(c) ==
    /\ UNCHANGED otherThan1
    /\ s1_readyState[c] = "NONE"
    \* connections are numbered in the order they are accepted
    /\ \A b \in Conn : b < c => s1_readyState[b] # "NONE"
    /\ s1_readyState' = [s1_readyState EXCEPT ![c] = "OPEN"]
    /\ s1_clientType' = [s1_clientType EXCEPT ![c] = "null"]
    /\ s1_regTimer' = [s1_regTimer EXCEPT ![c] = "armed"]
    /\ s1_pingTimer' = [s1_pingTimer EXCEPT ![c] = "on"]
    /\ s1_sent' = NoneSent
    /\ s1_last' = Event("connect", c, "", "")
    /\ UNCHANGED << s1_inflight, s1_androids, s1_espCams, s1_espStandards,
                    s1_espCamCommandsQueue, s1_espStandardCommandsQueue,
                    s1_pendingAlerts, s1_now >>

\* The peer starts the closing handshake (or its link drops): the socket
\* leaves OPEN before its 'close' event is handled.
S1_PeerCloses(c) ==
    /\ UNCHANGED otherThan1
    /\ s1_readyState[c] = "OPEN"
    /\ s1_readyState' = [s1_readyState EXCEPT ![c] = "CLOSING"]
    /\ s1_sent' = NoneSent
    /\ s1_last' = Event("peercloses", c, "", "")
    /\ UNCHANGED << s1_inflight, s1_clientType, s1_regTimer, s1_pingTimer, s1_androids,
                    s1_espCams, s1_espStandards, s1_espCamCommandsQueue,
                    s1_espStandardCommandsQueue, s1_pendingAlerts, s1_now >>

\* the registrationTimeout callback
S1_RegistrationTimeout(c) ==
    /\ UNCHANGED otherThan1
    /\ s1_regTimer[c] = "armed"
    /\ s1_regTimer' = [s1_regTimer EXCEPT ![c] = "off"]
    /\ s1_last' = Event("regtimeout", c, "", "")
    /\ IF s1_clientType[c] = "null" /\ S1_Open(c)
       THEN /\ s1_sent' = S1_closeCall(NoneSent, c, S1_codeNotRegistered)
            /\ s1_readyState' = [s1_readyState EXCEPT ![c] = "CLOSING"]
            /\ \E k \in 0 .. MaxInflight : s1_inflight' = [s1_inflight EXCEPT ![c] = k]
       ELSE /\ s1_sent' = NoneSent
            /\ UNCHANGED << s1_readyState, s1_inflight >>
    /\ UNCHANGED << s1_clientType, s1_pingTimer, s1_androids, s1_espCams,
                    s1_espStandards, s1_espCamCommandsQueue,
                    s1_espStandardCommandsQueue, s1_pendingAlerts, s1_now >>

\* the pingInterval callback
S1_PingInterval(c) ==
    /\ UNCHANGED otherThan1
    /\ s1_pingTimer[c] = "on"
    /\ s1_last' = Event("pinginterval", c, "", "")
    /\ IF S1_Open(c)
       THEN /\ s1_sent' = S1_sendJsonMessage(NoneSent, c, "ping", << >>).out
            /\ UNCHANGED s1_pingTimer
       ELSE /\ s1_sent' = NoneSent
            /\ s1_pingTimer' = S1_clearInterval(s1_pingTimer, c)
    /\ UNCHANGED << s1_readyState, s1_inflight, s1_clientType, s1_regTimer, s1_androids,
                    s1_espCams, s1_espStandards, s1_espCamCommandsQueue,
                    s1_espStandardCommandsQueue, s1_pendingAlerts, s1_now >>

\* socket.on('close')
S1_Close(c) ==
    /\ UNCHANGED otherThan1
    /\ s1_readyState[c] \in {"OPEN", "CLOSING"}
    /\ s1_readyState' = [s1_readyState EXCEPT ![c] = "CLOSED"]
    /\ s1_inflight' = [s1_inflight EXCEPT ![c] = 0]
    /\ s1_regTimer' = S1_clearTimeout(s1_regTimer, c)
    /\ s1_pingTimer' = S1_clearInterval(s1_pingTimer, c)
    /\ s1_androids' = s1_androids \ {c}
    /\ s1_espCams' = Without(s1_espCams, c)
    /\ s1_espStandards' = Without(s1_espStandards, c)
    /\ LET out == CASE s1_clientType[c] = "esp32-cam" ->
                         S1_broadcastEspStatus(NoneSent, s1_androids \ {c}, "espCam",
                                               Len(Without(s1_espCams, c)) > 0)
                    [] s1_clientType[c] = "esp32-standard" ->
                         S1_broadcastEspStatus(NoneSent, s1_androids \ {c}, "espStandard",
                                               Len(Without(s1_espStandards, c)) > 0)
                    [] OTHER -> NoneSent
       IN  s1_sent' = out
    /\ s1_last' = Event("close", c, "", "")
    /\ UNCHANGED << s1_clientType, s1_espCamCommandsQueue, s1_espStandardCommandsQueue,
                    s1_pendingAlerts, s1_now >>

\* socket.on('message'), type === 'register'
S1_Register(c, device, low) ==
    /\ UNCHANGED otherThan1
    /\ S1_Receiving(c)
    /\ s1_regTimer' = S1_clearTimeout(s1_regTimer, c)
    /\ s1_clientType' = [s1_clientType EXCEPT ![c] = device]
    /\ s1_last' = Event("register", c, device, s1_clientType[c])
    /\ LET registered == S1_sendJsonMessage(NoneSent, c, "registered", << >>).out
       IN  CASE device = "android" ->
                  LET status == S1_sendJsonMessage(registered, c, "esp_status",
                                    << BoolStr(Len(s1_espCams) > 0),
                                       BoolStr(Len(s1_espStandards) > 0) >>).out
                      retry == S1_retryPendingAlerts(status, s1_pendingAlerts,
                                                     s1_androids \cup {c})
                  IN  /\ s1_androids' = s1_androids \cup {c}
                      /\ s1_pendingAlerts' = retry.pending
                      /\ s1_sent' = retry.out
                      /\ s1_inflight' = S1_Handled(c)
                      /\ UNCHANGED << s1_readyState, s1_espCams, s1_espStandards,
                                      s1_espCamCommandsQueue, s1_espStandardCommandsQueue >>
             [] device = "esp32-cam" ->
                  LET status == S1_broadcastEspStatus(registered, s1_androids, "espCam", TRUE)
                  IN  /\ s1_espCams' = Append(s1_espCams, c)
                      /\ Len(s1_espCams') + Len(s1_espStandards) <= MaxArray
                      /\ s1_espCamCommandsQueue' = << >>
                      /\ s1_sent' = IF S1_Open(c)
                                    THEN [status EXCEPT ![c] =
                                             @ \o CommandFrames(s1_espCamCommandsQueue)]
                                    ELSE status
                      /\ s1_inflight' = S1_Handled(c)
                      /\ UNCHANGED << s1_readyState, s1_androids, s1_espStandards,
                                      s1_espStandardCommandsQueue, s1_pendingAlerts >>
             [] device = "esp32-standard" ->
                  LET status == S1_broadcastEspStatus(registered, s1_androids,
                                                      "espStandard", TRUE)
                  IN  /\ s1_espStandards' = Append(s1_espStandards, c)
                      /\ Len(s1_espCams) + Len(s1_espStandards') <= MaxArray
                      /\ s1_espStandardCommandsQueue' = << >>
                      /\ s1_sent' = IF S1_Open(c)
                                    THEN [status EXCEPT ![c] =
                                             @ \o CommandFrames(s1_espStandardCommandsQueue)]
                                    ELSE status
                      /\ s1_inflight' = S1_Handled(c)
                      /\ UNCHANGED << s1_readyState, s1_androids, s1_espCams,
                                      s1_espCamCommandsQueue, s1_pendingAlerts >>
             [] OTHER ->
                  \* error, then socket.close(1008, 'Type d\'appareil inconnu')
                  /\ s1_sent' = S1_closeCall(
                                    S1_sendJsonMessage(NoneSent, c, "error",
                                                       << "Type d'appareil inconnu" >>).out,
                                    c, S1_codeUnknownDevice)
                  /\ s1_readyState' = [s1_readyState EXCEPT ![c] = "CLOSING"]
                  /\ IF S1_Open(c)
                     THEN \E k \in 0 .. MaxInflight :
                             s1_inflight' = [s1_inflight EXCEPT ![c] = k]
                     ELSE s1_inflight' = S1_Handled(c)
                  /\ UNCHANGED << s1_androids, s1_espCams, s1_espStandards,
                                  s1_espCamCommandsQueue, s1_espStandardCommandsQueue,
                                  s1_pendingAlerts >>
    /\ UNCHANGED << s1_pingTimer, s1_now >>

\* what a JSON message other than register gets when the sender has no
\* clientType: error 'Client non enregistré'
S1_notRegistered(c) ==
    S1_sendJsonMessage(NoneSent, c, "error", << "Client non enregistré" >>).out

\* an android's message of a type that is no command
S1_unknownCommand(c) ==
    S1_sendJsonMessage(NoneSent, c, "error", << "Type de commande inconnu" >>).out

\* socket.on('message'), network_config / security_config
S1_CommandMsg(c, cmd, low) ==
    /\ UNCHANGED otherThan1
    /\ S1_Receiving(c)
    /\ s1_last' = Event("command", c,
                        IF s1_clientType[c] = "android" THEN cmd.type ELSE "", "")
    /\ CASE s1_clientType[c] = "null" ->
              /\ s1_sent' = S1_notRegistered(c)
              /\ UNCHANGED << s1_espCamCommandsQueue, s1_espStandardCommandsQueue >>
         [] s1_clientType[c] = "android" ->
              LET dist == S1_distributeCommand(NoneSent, cmd.type,
                                               ParamsOrEmpty(cmd.params), c)
              IN  /\ s1_espCamCommandsQueue' = dist.camQ
                  /\ s1_espStandardCommandsQueue' = dist.stdQ
                  /\ s1_sent' = dist.out
         [] OTHER ->
              /\ s1_sent' = NoneSent
              /\ UNCHANGED << s1_espCamCommandsQueue, s1_espStandardCommandsQueue >>
    /\ InWindow(s1_espCamCommandsQueue', low) /\ InWindow(s1_espStandardCommandsQueue', low)
    /\ s1_inflight' = S1_Handled(c)
    /\ UNCHANGED << s1_readyState, s1_clientType, s1_regTimer, s1_pingTimer, s1_androids,
                    s1_espCams, s1_espStandards, s1_pendingAlerts, s1_now >>

\* the non-OPEN references of an array: otherEsps.forEach pushes one
\* turn_on_light per such reference
NotOpenIn(array) == Cardinality({ i \in DOMAIN array : ~ S1_Open(array[i]) })

\* socket.on('message'), type === 'alert'
S1_AlertMsg(c, m, low) ==
    /\ UNCHANGED otherThan1
    /\ S1_Receiving(c)
    /\ s1_last' = Event("alert", c,
                        IF s1_clientType[c] \in DeviceRoles THEN MessageOrDefault(m) ELSE "",
                        "")
    /\ CASE s1_clientType[c] = "null" ->
              /\ s1_sent' = S1_notRegistered(c)
              /\ UNCHANGED << s1_espCamCommandsQueue, s1_espStandardCommandsQueue,
                              s1_pendingAlerts >>
         [] s1_clientType[c] = "android" ->
              /\ s1_sent' = S1_unknownCommand(c)
              /\ UNCHANGED << s1_espCamCommandsQueue, s1_espStandardCommandsQueue,
                              s1_pendingAlerts >>
         [] s1_clientType[c] \in DeviceRoles ->
              LET fromCam == s1_clientType[c] = "esp32-cam"
                  otherEsps == IF fromCam THEN s1_espStandards ELSE s1_espCams
                  light == Command("turn_on_light", "alert_detected")
                  out1 == S1_sendToEachOf(NoneSent, otherEsps, "turn_on_light",
                                          << "alert_detected" >>)
                  alert == S1_broadcastAlertToAndroids(out1, s1_pendingAlerts, s1_androids,
                                                       MessageOrDefault(m), "null")
              IN  /\ s1_espStandardCommandsQueue' =
                         IF fromCam
                         THEN s1_espStandardCommandsQueue \o Fill(NotOpenIn(otherEsps), light)
                         ELSE s1_espStandardCommandsQueue
                  /\ s1_espCamCommandsQueue' =
                         IF fromCam
                         THEN s1_espCamCommandsQueue
                         ELSE s1_espCamCommandsQueue \o Fill(NotOpenIn(otherEsps), light)
                  /\ s1_pendingAlerts' = alert.pending
                  /\ s1_sent' = alert.out
         [] OTHER ->
              /\ s1_sent' = NoneSent
              /\ UNCHANGED << s1_espCamCommandsQueue, s1_espStandardCommandsQueue,
                              s1_pendingAlerts >>
    /\ InWindow(s1_espCamCommandsQueue', low) /\ InWindow(s1_espStandardCommandsQueue', low)
    /\ InWindow(s1_pendingAlerts', low)
    /\ s1_inflight' = S1_Handled(c)
    /\ UNCHANGED << s1_readyState, s1_clientType, s1_regTimer, s1_pingTimer, s1_androids,
                    s1_espCams, s1_espStandards, s1_now >>

\* socket.on('message'), message instanceof Buffer
S1_Binary(c, photo, low) ==
    /\ UNCHANGED otherThan1
    /\ S1_Receiving(c)
    /\ s1_last' = Event("binary", c, IF s1_clientType[c] = "esp32-cam" THEN photo ELSE "", "")
    /\ IF s1_clientType[c] = "esp32-cam"
       THEN LET alert == S1_broadcastAlertToAndroids(NoneSent, s1_pendingAlerts, s1_androids,
                             "Photo capturée lors d'une alerte", photo)
            IN  /\ s1_pendingAlerts' = alert.pending
                /\ s1_sent' = alert.out
       ELSE /\ s1_sent' = NoneSent
            /\ UNCHANGED s1_pendingAlerts
    /\ InWindow(s1_pendingAlerts', low)
    /\ s1_inflight' = S1_Handled(c)
    /\ UNCHANGED << s1_readyState, s1_clientType, s1_regTimer, s1_pingTimer, s1_androids,
                    s1_espCams, s1_espStandards, s1_espCamCommandsQueue,
                    s1_espStandardCommandsQueue, s1_now >>

\* socket.on('message'): pong, a JSON type no branch names, or text that is
\* not JSON
S1_OtherMsg(c, type) ==
    /\ UNCHANGED otherThan1
    /\ S1_Receiving(c)
    /\ s1_last' = Event("other", c, "", "")
    /\ s1_sent' = CASE type = "not json" ->
                         S1_sendJsonMessage(NoneSent, c, "error",
                                            << "Message JSON invalide" >>).out
                    [] s1_clientType[c] = "null" -> S1_notRegistered(c)
                    [] s1_clientType[c] = "android" -> S1_unknownCommand(c)
                    [] OTHER -> NoneSent
    /\ s1_inflight' = S1_Handled(c)
    /\ UNCHANGED << s1_readyState, s1_clientType, s1_regTimer, s1_pingTimer, s1_androids,
                    s1_espCams, s1_espStandards, s1_espCamCommandsQueue,
                    s1_espStandardCommandsQueue, s1_pendingAlerts, s1_now >>

\* setInterval(retryPendingAlerts, 30000)
S1_RetryInterval ==
    /\ UNCHANGED otherThan1
    /\ LET retry == S1_retryPendingAlerts(NoneSent, s1_pendingAlerts, s1_androids)
       IN  /\ s1_pendingAlerts' = retry.pending
           /\ s1_sent' = retry.out
    /\ s1_last' = Event("retry", NoSocket, "", "")
    /\ UNCHANGED << s1_readyState, s1_inflight, s1_clientType, s1_regTimer, s1_pingTimer,
                    s1_androids, s1_espCams, s1_espStandards, s1_espCamCommandsQueue,
                    s1_espStandardCommandsQueue, s1_now >>

\* every event of the first server; low bounds the explored queue lengths
S1_Next(low) ==
    \/ \E c \in Conn :
        \/ S1_Connect(c)
        \/ S1_PeerCloses(c)
        \/ S1_RegistrationTimeout(c)
        \/ S1_PingInterval(c)
        \/ S1_Close(c)
        \/ \E device \in Devices : S1_Register(c, device, low)
        \/ \E cmd \in AndroidCommands : S1_CommandMsg(c, cmd, low)
        \/ \E m \in AlertMsgs \cup {"missing"} : S1_AlertMsg(c, m, low)
        \/ \E photo \in {"img1"} : S1_Binary(c, photo, low)
        \/ \E type \in {"pong", "not json"} : S1_OtherMsg(c, type)
    \/ S1_RetryInterval

(***************************************************************************)
(*                 Photo relay server: src/unnamed/part_002                *)
(*                                                                         *)
(* One slot per ESP role (clients.espCam, clients.espStandard), a Map of   *)
(* androids, one photo queue, no timer.  Most of its sends are raw         *)
(* socket.send calls: on a socket that is not OPEN such a call throws or   *)
(* drops the frame, depending on the ws release the build resolves.  An    *)
(* exception inside the try block reaches the catch, whose own raw send    *)
(* throws in turn: the exception leaves the listener and the process       *)
(* exits (p2_crashed).                                                     *)
(***************************************************************************)

\* const MAX_QUEUE_SIZE = 50
P2_MAX_QUEUE_SIZE == 50

P2_Open(c) == p2_readyState[c] = "OPEN"

\* the 'close' event of c has not been handled
P2_Live(c) == p2_readyState[c] \in {"OPEN", "CLOSING"}

P2_Init ==
    /\ p2_readyState = [c \in Conn |-> "NONE"]
    /\ p2_inflight = [c \in Conn |-> 0]
    /\ p2_clientType = [c \in Conn |-> "null"]
    /\ p2_androids = {}
    /\ p2_espCam = NoSocket
    /\ p2_espStandard = NoSocket
    /\ p2_photoQueue = << >>
    /\ p2_espCamConnected = FALSE
    /\ p2_espStandardConnected = FALSE
    /\ p2_crashed = FALSE
    /\ p2_sent = NoneSent
    /\ p2_last = Event("init", NoSocket, "", "")

\* a frame from the peer can be handled
P2_Receiving(c) ==
    /\ ~p2_crashed
    /\ \/ p2_readyState[c] = "OPEN"
       \/ p2_readyState[c] = "CLOSING" /\ p2_inflight[c] > 0

\* one frame of c has been handled
P2_Handled(c) ==
    [p2_inflight EXCEPT ![c] = IF p2_readyState[c] = "CLOSING" THEN @ - 1 ELSE @]

\* socket.send(...) with no readyState test: on an OPEN socket the frame is
\* written; otherwise the call throws (ok FALSE) or the frame is dropped.
P2_rawSend(out, socket, frame, throws) ==
    IF P2_Open(socket)
    THEN [ok |-> TRUE, out |-> [out EXCEPT ![socket] = Append(@, frame)]]
    ELSE [ok |-> ~throws, out |-> out]

\* clients.androids.forEach(client => if OPEN, client.socket.send(frame))
P2_sendToAndroids(out, androids, frame) ==
    [a \in Conn |-> IF a \in androids /\ P2_Open(a) THEN Append(out[a], frame)
                                                     ELSE out[a]]

\* broadcastEspStatus: the frames it writes
P2_broadcastEspStatus(out, androids, espCam, espStandard) ==
    P2_sendToAndroids(out, androids,
        Msg("esp_status", << BoolStr(espCam # NoSocket), BoolStr(espStandard # NoSocket),
                             BoolStr(espCam # NoSocket \/ espStandard # NoSocket) >>))

\* sendToEspStandard(message)
P2_sendToEspStandard(out, frame) ==
    IF p2_espStandard # NoSocket /\ P2_Open(p2_espStandard)
    THEN [out EXCEPT ![p2_espStandard] = Append(@, frame)]
    ELSE out

\* the catch block after an exception: its raw send of the error envelope
\* either writes the frame or throws out of the listener
P2_catch(c, throws) ==
    LET e == P2_rawSend(NoneSent, c, Msg("error", << "Erreur serveur" >>), throws)
    IN  /\ p2_crashed' = ~e.ok
        /\ p2_sent' = e.out

\* wss.on('connection')
P2_Connect(c) ==
    /\ UNCHANGED otherThanP2
    /\ ~p2_crashed
    /\ p2_readyState[c] = "NONE"
    \* connections are numbered in the order they are accepted
    /\ \A b \in Conn : b < c => p2_readyState[b] # "NONE"
    /\ p2_readyState' = [p2_readyState EXCEPT ![c] = "OPEN"]
    /\ p2_inflight' = [p2_inflight EXCEPT ![c] = 0]
    /\ p2_clientType' = [p2_clientType EXCEPT ![c] = "null"]
    /\ p2_sent' = NoneSent
    /\ p2_last' = Event("connect", c, "", "")
    /\ UNCHANGED << p2_androids, p2_espCam, p2_espStandard, p2_photoQueue,
                    p2_espCamConnected, p2_espStandardConnected, p2_crashed >>

\* The peer starts the closing handshake (or its link drops): the socket
\* leaves OPEN before its 'close' event is handled.
P2_PeerCloses(c) ==
    /\ UNCHANGED otherThanP2
    /\ ~p2_crashed
    /\ p2_readyState[c] = "OPEN"
    /\ p2_readyState' = [p2_readyState EXCEPT ![c] = "CLOSING"]
    /\ p2_sent' = NoneSent
    /\ p2_last' = Event("peercloses", c, "", "")
    /\ UNCHANGED << p2_inflight, p2_clientType, p2_androids, p2_espCam,
                    p2_espStandard, p2_photoQueue, p2_espCamConnected,
                    p2_espStandardConnected, p2_crashed >>

\* socket.on('close')
P2_Close(c) ==
    /\ UNCHANGED otherThanP2
    /\ ~p2_crashed
    /\ P2_Live(c)
    /\ p2_readyState' = [p2_readyState EXCEPT ![c] = "CLOSED"]
    /\ p2_inflight' = [p2_inflight EXCEPT ![c] = 0]
    /\ LET type == p2_clientType[c]
           androids == IF type = "android" THEN p2_androids \ {c} ELSE p2_androids
           espCam == IF type = "esp32-cam" THEN NoSocket ELSE p2_espCam
           espStandard == IF type = "esp32-standard" THEN NoSocket ELSE p2_espStandard
       IN  /\ p2_androids' = androids
           /\ p2_espCam' = espCam
           /\ p2_espStandard' = espStandard
           /\ IF type \in DeviceRoles
              THEN /\ p2_espCamConnected' = (espCam # NoSocket)
                   /\ p2_espStandardConnected' = (espStandard # NoSocket)
                   /\ p2_sent' = [d \in Conn |->
                         IF d = c THEN << >>
                         ELSE P2_broadcastEspStatus(NoneSent, androids, espCam,
                                                    espStandard)[d]]
              ELSE /\ UNCHANGED << p2_espCamConnected, p2_espStandardConnected >>
                   /\ p2_sent' = NoneSent
    /\ p2_last' = Event("close", c, "", "")
    /\ UNCHANGED << p2_clientType, p2_photoQueue, p2_crashed >>

\* socket.on('message'), type === 'register'
P2_Register(c, device) ==
    /\ UNCHANGED otherThanP2
    /\ P2_Receiving(c)
    /\ p2_clientType' = [p2_clientType EXCEPT ![c] = device]
    /\ p2_last' = Event("register", c, device, p2_clientType[c])
    /\ \E throws \in BOOLEAN, k \in 0 .. MaxInflight :
         LET androids == IF device = "android" THEN p2_androids \cup {c} ELSE p2_androids
             espCam == IF device = "esp32-cam" THEN c ELSE p2_espCam
             espStandard == IF device = "esp32-standard" THEN c ELSE p2_espStandard
             first == IF device \in {"android"} \cup DeviceRoles
                      THEN Msg("registered", << >>)
                      ELSE Msg("error", << "Type de dispositif inconnu" >>)
             r == P2_rawSend(NoneSent, c, first, throws)
             \* sendQueuedPhotos(socket): every photo is shifted and sent raw
             photos == IF device = "android" /\ P2_Open(c)
                       THEN [r.out EXCEPT ![c] = @ \o PhotoFrames(p2_photoQueue)]
                       ELSE r.out
             closing == /\ device \notin {"android"} \cup DeviceRoles
                        /\ P2_Open(c)
         IN  /\ (~P2_Open(c) \/ ~closing) => k = 0
             /\ (P2_Open(c) => ~throws)
             /\ p2_androids' = androids
             /\ p2_espCam' = espCam
             /\ p2_espStandard' = espStandard
             /\ IF ~r.ok
                THEN \* the raw send threw: catch, whose send throws as well
                     /\ P2_catch(c, throws)
                     /\ p2_inflight' = P2_Handled(c)
                     /\ UNCHANGED << p2_readyState, p2_photoQueue,
                                     p2_espCamConnected, p2_espStandardConnected >>
                ELSE /\ p2_crashed' = FALSE
                     /\ p2_photoQueue' = IF device = "android" THEN << >>
                                                               ELSE p2_photoQueue
                     /\ IF closing
                        THEN \* socket.close(1000, ...)
                             /\ p2_readyState' = [p2_readyState EXCEPT ![c] = "CLOSING"]
                             /\ p2_inflight' = [p2_inflight EXCEPT ![c] = k]
                             /\ p2_sent' = [photos EXCEPT
                                              ![c] = Append(@, Msg("close", << "1000" >>))]
                             /\ UNCHANGED << p2_espCamConnected,
                                             p2_espStandardConnected >>
                        ELSE /\ UNCHANGED p2_readyState
                             /\ p2_inflight' = P2_Handled(c)
                             /\ IF device \in {"android"} \cup DeviceRoles
                                THEN /\ p2_espCamConnected' = (espCam # NoSocket)
                                     /\ p2_espStandardConnected' =
                                            (espStandard # NoSocket)
                                     /\ p2_sent' = P2_broadcastEspStatus(
                                            photos, androids, espCam, espStandard)
                                ELSE /\ UNCHANGED << p2_espCamConnected,
                                                     p2_espStandardConnected >>
                                     /\ p2_sent' = photos

\* socket.on('message'), a binary frame: broadcastImage for an esp32-cam
P2_Binary(c, photo, low) ==
    /\ UNCHANGED otherThanP2
    /\ P2_Receiving(c)
    /\ p2_last' = Event("binary", c, photo, "")
    /\ p2_inflight' = P2_Handled(c)
    /\ IF p2_clientType[c] # "esp32-cam"
       THEN /\ p2_sent' = NoneSent
            /\ UNCHANGED p2_photoQueue
       ELSE LET sentToAndroid == \E a \in p2_androids : P2_Open(a)
                out == P2_sendToAndroids(NoneSent, p2_androids,
                                         Msg("binary", << photo >>))
            IN  /\ p2_photoQueue' =
                      IF ~sentToAndroid /\ Len(p2_photoQueue) < P2_MAX_QUEUE_SIZE
                      THEN Append(p2_photoQueue, photo)
                      ELSE p2_photoQueue
                /\ p2_sent' = P2_sendToEspStandard(out, Msg("turn_on_light", << >>))
    /\ InWindow(p2_photoQueue', low)
    /\ UNCHANGED << p2_readyState, p2_clientType, p2_androids, p2_espCam,
                    p2_espStandard, p2_espCamConnected, p2_espStandardConnected,
                    p2_crashed >>

\* socket.on('message'), type === 'alert'
P2_AlertMsg(c, m) ==
    /\ UNCHANGED otherThanP2
    /\ P2_Receiving(c)
    /\ p2_last' = Event("alert", c, m, "")
    /\ p2_inflight' = P2_Handled(c)
    /\ p2_sent' = IF p2_clientType[c] \in DeviceRoles
                  THEN P2_sendToEspStandard(
                           P2_sendToAndroids(NoneSent, p2_androids,
                                             Msg("alert", << m >>)),
                           Msg("turn_on_light", << >>))
                  ELSE NoneSent
    /\ UNCHANGED << p2_readyState, p2_clientType, p2_androids, p2_espCam,
                    p2_espStandard, p2_photoQueue, p2_espCamConnected,
                    p2_espStandardConnected, p2_crashed >>

\* clients.<slot>.send(JSON.stringify(message)) when the slot's socket is OPEN
P2_sendToSlot(out, slot, frame) ==
    IF slot # NoSocket /\ P2_Open(slot)
    THEN [ok |-> TRUE, out |-> [out EXCEPT ![slot] = Append(@, frame)]]
    ELSE [ok |-> FALSE, out |-> out]

P2_outcome(sentTo) == IF sentTo THEN "OK" ELSE "Non connecte"

\* socket.on('message'), type network_config or security_config
P2_CommandMsg(c, cmd) ==
    /\ UNCHANGED otherThanP2
    /\ P2_Receiving(c)
    /\ p2_last' = Event("command", c, cmd.type, "")
    /\ p2_inflight' = P2_Handled(c)
    /\ \E throws \in BOOLEAN :
         /\ (P2_Open(c) \/ p2_clientType[c] # "android") => ~throws
         /\ IF p2_clientType[c] # "android"
            THEN /\ p2_sent' = NoneSent
                 /\ UNCHANGED p2_crashed
            ELSE LET frame == Msg(cmd.type, << cmd.params >>)
                     cam == P2_sendToSlot(NoneSent, p2_espCam, frame)
                     std == P2_sendToSlot(cam.out, p2_espStandard, frame)
                     r == P2_rawSend(std.out, c,
                              Msg("command_response",
                                  << cmd.type, P2_outcome(cam.ok), P2_outcome(std.ok) >>),
                              throws)
                 IN  IF r.ok
                     THEN /\ p2_sent' = r.out
                          /\ UNCHANGED p2_crashed
                     ELSE \* catch: its raw send throws as well; the frames
                          \* written to the ESPs before stay written
                          /\ p2_crashed' = TRUE
                          /\ p2_sent' = std.out
    /\ UNCHANGED << p2_readyState, p2_clientType, p2_androids, p2_espCam,
                    p2_espStandard, p2_photoQueue, p2_espCamConnected,
                    p2_espStandardConnected >>

\* socket.on('message'), type === 'ping'
P2_PingMsg(c) ==
    /\ UNCHANGED otherThanP2
    /\ P2_Receiving(c)
    /\ p2_last' = Event("ping", c, "", "")
    /\ p2_inflight' = P2_Handled(c)
    /\ \E throws \in BOOLEAN :
         /\ (P2_Open(c) \/ p2_clientType[c] = "null") => ~throws
         /\ IF p2_clientType[c] = "null"
            THEN /\ p2_sent' = NoneSent
                 /\ UNCHANGED p2_crashed
            ELSE LET r == P2_rawSend(NoneSent, c, Msg("pong", << >>), throws)
                 IN  /\ p2_sent' = r.out
                     /\ p2_crashed' = ~r.ok
    /\ UNCHANGED << p2_readyState, p2_clientType, p2_androids, p2_espCam,
                    p2_espStandard, p2_photoQueue, p2_espCamConnected,
                    p2_espStandardConnected >>

\* socket.on('message'): a JSON type no branch handles (logged only), or text
\* that is not JSON (JSON.parse throws into the catch)
P2_OtherMsg(c, type) ==
    /\ UNCHANGED otherThanP2
    /\ P2_Receiving(c)
    /\ p2_last' = Event("other", c, type, "")
    /\ p2_inflight' = P2_Handled(c)
    /\ \E throws \in BOOLEAN :
         /\ (P2_Open(c) \/ type # "not json") => ~throws
         /\ IF type = "not json"
            THEN P2_catch(c, throws)
            ELSE /\ p2_sent' = NoneSent
                 /\ UNCHANGED p2_crashed
    /\ UNCHANGED << p2_readyState, p2_clientType, p2_androids, p2_espCam,
                    p2_espStandard, p2_photoQueue, p2_espCamConnected,
                    p2_espStandardConnected >>

P2_Next(low) ==
    \E c \in Conn :
        \/ P2_Connect(c)
        \/ P2_PeerCloses(c)
        \/ P2_Close(c)
        \/ \E device \in Devices : P2_Register(c, device)
        \/ \E photo \in Photos : P2_Binary(c, photo, low)
        \/ \E cmd \in AndroidCommands : P2_CommandMsg(c, cmd)
        \/ \E m \in AlertMsgs : P2_AlertMsg(c, m)
        \/ P2_PingMsg(c)
        \/ \E type \in OtherTypes \cup {"not json"} : P2_OtherMsg(c, type)

(***************************************************************************)
(*                 Relay server: src/unnamed/part_001                      *)
(*                                                                         *)
(* Arrays for the ESP sockets, a Map of androids, pendingAlerts, a ping    *)
(* interval per connection; no command queue, no clientType field and no   *)
(* socket.close call: a socket leaves OPEN only when its peer closes.      *)
(***************************************************************************)

P1_Open(c) == p1_readyState[c] = "OPEN"

P1_Init ==
    /\ p1_readyState = [c \in Conn |-> "NONE"]
    /\ p1_pingTimer = [c \in Conn |-> "none"]
    /\ p1_androids = {}
    /\ p1_espCams = << >>
    /\ p1_espStandards = << >>
    /\ p1_pendingAlerts = << >>
    /\ p1_sent = NoneSent
    /\ p1_last = Event("init", NoSocket, "", "")

\* sendJsonMessage: writes only to an OPEN socket
P1_sendJsonMessage(out, socket, type, body) ==
    IF P1_Open(socket) THEN [out EXCEPT ![socket] = Append(@, Msg(type, body))] ELSE out

\* array.forEach(s => sendJsonMessage(s, type, body)): one frame per reference
P1_sendToEachOf(out, array, type, body) ==
    [c \in Conn |-> IF P1_Open(c) THEN out[c] \o Fill(Count(array, c), Msg(type, body))
                                  ELSE out[c]]

\* array.includes(socket)
Includes(array, c) == \E i \in DOMAIN array : array[i] = c

\* what broadcastAlertToAndroids writes to one OPEN android
P1_alertFrames(message, imageData) ==
    IF imageData # "null"
    THEN << Msg("binary", << imageData >>), Msg("alert", << message >>) >>
    ELSE << Msg("alert", << message >>) >>

\* broadcastAlertToAndroids: to every OPEN android of the map; stored only when
\* the map is empty.
P1_broadcastAlertToAndroids(out, pending, androids, message, imageData) ==
    IF androids # {}
    THEN [pending |-> pending,
          out |-> [a \in Conn |-> IF a \in androids /\ P1_Open(a)
                                  THEN out[a] \o P1_alertFrames(message, imageData)
                                  ELSE out[a]]]
    ELSE [pending |-> Append(pending, [message |-> message, imageData |-> imageData]),
          out |-> out]

\* what broadcastAlertToAndroids writes to one OPEN android for each alert of
\* a list in turn
RECURSIVE P1_alertFramesOfAll(_)
P1_alertFramesOfAll(alerts) ==
    IF alerts = << >> THEN << >>
    ELSE P1_alertFrames(Head(alerts).message, Head(alerts).imageData)
             \o P1_alertFramesOfAll(Tail(alerts))

\* retryPendingAlerts: past its first line the map is not empty, so every
\* broadcastAlertToAndroids of the loop writes to the OPEN androids
P1_retryPendingAlerts(out, pending, androids) ==
    IF pending = << >> \/ androids = {}
    THEN [pending |-> pending, out |-> out]
    ELSE [pending |-> << >>,
          out |-> [a \in Conn |-> IF a \in androids /\ P1_Open(a)
                                  THEN out[a] \o P1_alertFramesOfAll(pending)
                                  ELSE out[a]]]

\* broadcastEspStatus(espType, connected)
P1_broadcastEspStatus(out, androids, espType, connected) ==
    [a \in Conn |-> IF a \in androids /\ P1_Open(a)
                    THEN Append(out[a], Msg("esp_status", << espType, BoolStr(connected) >>))
                    ELSE out[a]]

\* wss.on('connection')
P1_Connect(c) ==
    /\ UNCHANGED otherThanP1
    /\ p1_readyState[c] = "NONE"
    \* connections are numbered in the order they are accepted
    /\ \A b \in Conn : b < c => p1_readyState[b] # "NONE"
    /\ p1_readyState' = [p1_readyState EXCEPT ![c] = "OPEN"]
    /\ p1_pingTimer' = [p1_pingTimer EXCEPT ![c] = "on"]
    /\ p1_sent' = NoneSent
    /\ p1_last' = Event("connect", c, "", "")
    /\ UNCHANGED << p1_androids, p1_espCams, p1_espStandards, p1_pendingAlerts >>

\* The peer starts the closing handshake (or its link drops): the socket
\* leaves OPEN before its 'close' event is handled.
P1_PeerCloses(c) ==
    /\ UNCHANGED otherThanP1
    /\ P1_Open(c)
    /\ p1_readyState' = [p1_readyState EXCEPT ![c] = "CLOSING"]
    /\ p1_sent' = NoneSent
    /\ p1_last' = Event("peercloses", c, "", "")
    /\ UNCHANGED << p1_pingTimer, p1_androids, p1_espCams, p1_espStandards,
                    p1_pendingAlerts >>

\* the pingInterval callback
P1_PingInterval(c) ==
    /\ UNCHANGED otherThanP1
    /\ p1_pingTimer[c] = "on"
    /\ p1_last' = Event("pinginterval", c, "", "")
    /\ IF P1_Open(c)
       THEN /\ p1_sent' = P1_sendJsonMessage(NoneSent, c, "ping", << >>)
            /\ UNCHANGED p1_pingTimer
       ELSE /\ p1_sent' = NoneSent
            /\ p1_pingTimer' = [p1_pingTimer EXCEPT ![c] = "off"]
    /\ UNCHANGED << p1_readyState, p1_androids, p1_espCams, p1_espStandards,
                    p1_pendingAlerts >>

\* socket.on('close'): the arrays are filtered first, then asked whether they
\* include the socket
P1_Close(c) ==
    /\ UNCHANGED otherThanP1
    /\ p1_readyState[c] \in {"OPEN", "CLOSING"}
    /\ p1_readyState' = [p1_readyState EXCEPT ![c] = "CLOSED"]
    /\ p1_pingTimer' = [p1_pingTimer EXCEPT ![c] = "off"]
    /\ LET androids == p1_androids \ {c}
           espCams == Without(p1_espCams, c)
           espStandards == Without(p1_espStandards, c)
       IN  /\ p1_androids' = androids
           /\ p1_espCams' = espCams
           /\ p1_espStandards' = espStandards
           /\ p1_sent' = CASE Includes(espCams, c) ->
                                 P1_broadcastEspStatus(NoneSent, androids, "espCam", FALSE)
                            [] Includes(espStandards, c) ->
                                 P1_broadcastEspStatus(NoneSent, androids, "espStandard",
                                                       FALSE)
                            [] OTHER -> NoneSent
    /\ p1_last' = Event("close", c, "", "")
    /\ UNCHANGED p1_pendingAlerts

\* socket.on('message'), type === 'register'
P1_Register(c, device) ==
    /\ UNCHANGED otherThanP1
    /\ P1_Open(c)
    /\ p1_last' = Event("register", c, device, "")
    /\ LET registered == P1_sendJsonMessage(NoneSent, c, "registered", << >>)
       IN  CASE device = "android" ->
                  LET status == P1_sendJsonMessage(registered, c, "esp_status",
                                    << BoolStr(Len(p1_espCams) > 0),
                                       BoolStr(Len(p1_espStandards) > 0) >>)
                      retry == P1_retryPendingAlerts(status, p1_pendingAlerts,
                                                     p1_androids \cup {c})
                  IN  /\ p1_androids' = p1_androids \cup {c}
                      /\ p1_pendingAlerts' = retry.pending
                      /\ p1_sent' = retry.out
                      /\ UNCHANGED << p1_espCams, p1_espStandards >>
             [] device = "esp32-cam" ->
                  /\ p1_espCams' = Append(p1_espCams, c)
                  /\ Len(p1_espCams') + Len(p1_espStandards) <= MaxArray
                  /\ p1_sent' = P1_broadcastEspStatus(registered, p1_androids, "espCam", TRUE)
                  /\ UNCHANGED << p1_androids, p1_espStandards, p1_pendingAlerts >>
             [] device = "esp32-standard" ->
                  /\ p1_espStandards' = Append(p1_espStandards, c)
                  /\ Len(p1_espCams) + Len(p1_espStandards') <= MaxArray
                  /\ p1_sent' = P1_broadcastEspStatus(registered, p1_androids,
                                                      "espStandard", TRUE)
                  /\ UNCHANGED << p1_androids, p1_espCams, p1_pendingAlerts >>
             [] OTHER ->
                  /\ p1_sent' = P1_sendJsonMessage(NoneSent, c, "error",
                                                   << "Type d'appareil inconnu" >>)
                  /\ UNCHANGED << p1_androids, p1_espCams, p1_espStandards,
                                  p1_pendingAlerts >>
    /\ UNCHANGED << p1_readyState, p1_pingTimer >>

\* socket.on('message'), network_config / security_config
P1_CommandMsg(c, cmd) ==
    /\ UNCHANGED otherThanP1
    /\ P1_Open(c)
    /\ p1_last' = Event("command", c, cmd.type, "")
    /\ p1_sent' = IF c \in p1_androids
                  THEN P1_sendJsonMessage(
                           P1_sendToEachOf(NoneSent, p1_espCams \o p1_espStandards,
                                           cmd.type, << ParamsOrEmpty(cmd.params) >>),
                           c, "command_response", << cmd.type >>)
                  ELSE NoneSent
    /\ UNCHANGED << p1_readyState, p1_pingTimer, p1_androids, p1_espCams,
                    p1_espStandards, p1_pendingAlerts >>

\* socket.on('message'), type === 'alert'
P1_AlertMsg(c, m, low) ==
    /\ UNCHANGED otherThanP1
    /\ P1_Open(c)
    /\ p1_last' = Event("alert", c, m, "")
    /\ IF c \notin p1_androids /\ (Includes(p1_espCams, c) \/ Includes(p1_espStandards, c))
       THEN LET otherEsps == IF Includes(p1_espCams, c) THEN p1_espStandards
                                                        ELSE p1_espCams
                light == P1_sendToEachOf(NoneSent, otherEsps, "turn_on_light",
                                         << "alert_detected" >>)
                alert == P1_broadcastAlertToAndroids(light, p1_pendingAlerts, p1_androids,
                                                     MessageOrDefault(m), "null")
            IN  /\ p1_pendingAlerts' = alert.pending
                /\ p1_sent' = alert.out
       ELSE /\ p1_sent' = NoneSent
            /\ UNCHANGED p1_pendingAlerts
    /\ Len(p1_pendingAlerts') <= low
    /\ UNCHANGED << p1_readyState, p1_pingTimer, p1_androids, p1_espCams,
                    p1_espStandards >>

\* socket.on('message'), message instanceof Buffer
P1_Binary(c, photo, low) ==
    /\ UNCHANGED otherThanP1
    /\ P1_Open(c)
    /\ p1_last' = Event("binary", c, photo, "")
    /\ IF Includes(p1_espCams, c)
       THEN LET alert == P1_broadcastAlertToAndroids(NoneSent, p1_pendingAlerts, p1_androids,
                             "Photo capturée lors d'une alerte", photo)
            IN  /\ p1_pendingAlerts' = alert.pending
                /\ p1_sent' = alert.out
       ELSE /\ p1_sent' = NoneSent
            /\ UNCHANGED p1_pendingAlerts
    /\ Len(p1_pendingAlerts') <= low
    /\ UNCHANGED << p1_readyState, p1_pingTimer, p1_androids, p1_espCams,
                    p1_espStandards >>

\* socket.on('message'): pong, a JSON type no branch names (logged only), or
\* text that is not JSON (error 'Message JSON invalide')
P1_OtherMsg(c, type) ==
    /\ UNCHANGED otherThanP1
    /\ P1_Open(c)
    /\ p1_last' = Event("other", c, type, "")
    /\ p1_sent' = IF type = "not json"
                  THEN P1_sendJsonMessage(NoneSent, c, "error", << "Message JSON invalide" >>)
                  ELSE NoneSent
    /\ UNCHANGED << p1_readyState, p1_pingTimer, p1_androids, p1_espCams,
                    p1_espStandards, p1_pendingAlerts >>

\* setInterval(retryPendingAlerts, 30000)
P1_RetryInterval ==
    /\ UNCHANGED otherThanP1
    /\ LET retry == P1_retryPendingAlerts(NoneSent, p1_pendingAlerts, p1_androids)
       IN  /\ p1_pendingAlerts' = retry.pending
           /\ p1_sent' = retry.out
    /\ p1_last' = Event("retry", NoSocket, "", "")
    /\ UNCHANGED << p1_readyState, p1_pingTimer, p1_androids, p1_espCams,
                    p1_espStandards >>

\* every event of the server of part_001; low bounds the explored length of
\* pendingAlerts
P1_Next(low) ==
    \/ \E c \in Conn :
        \/ P1_Connect(c)
        \/ P1_PeerCloses(c)
        \/ P1_PingInterval(c)
        \/ P1_Close(c)
        \/ \E device \in Devices : P1_Register(c, device)
        \/ \E cmd \in AndroidCommands : P1_CommandMsg(c, cmd)
        \/ \E m \in AlertMsgs \cup {"missing"} : P1_AlertMsg(c, m, low)
        \/ \E photo \in Photos : P1_Binary(c, photo, low)
        \/ \E type \in {"pong", "not json"} : P1_OtherMsg(c, type)
    \/ P1_RetryInterval

(***************************************************************************)
(*                              Specifications                             *)
(***************************************************************************)
\* the first server from its construction
Init1 == S1_Init /\ S2_Init /\ P2_Init /\ P1_Init
Spec1 == Init1 /\ [][S1_Next(MaxQueue)]_vars

\* The first server more than maxAge after an ESP32-CAM, closed since, sent an
\* alert while no android was registered: every retryPendingAlerts of that
\* hour returned at its first line, the alert is still in pendingAlerts.
S1_InitAged ==
    S1_InitWith(maxAge + 1,
                << [message |-> "intrusion", imageData |-> "null", timestamp |-> 0] >>,
                << >>, << >>)
Init1Aged == S1_InitAged /\ S2_Init /\ P2_Init /\ P1_Init
Spec1Aged == Init1Aged /\ [][S1_Next(MaxQueue)]_vars

\* The first server after an android, closed since, sent MAX_QUEUE_SIZE - 1
\* commands while no ESP was registered, and an ESP32-CAM, closed since, then
\* registered (taking the CAM queue) and sent MAX_QUEUE_SIZE - 1 alerts while
\* no android was registered.
S1_InitNearFull ==
    S1_InitWith(0,
                Fill(MAX_QUEUE_SIZE - 1,
                     [message |-> "intrusion", imageData |-> "null", timestamp |-> 0]),
                << >>,
                Fill(MAX_QUEUE_SIZE - 1, Command("network_config", "ssid")))
Init1Full == S1_InitNearFull /\ S2_Init /\ P2_Init /\ P1_Init
Spec1Full == Init1Full /\ [][S1_Next(0)]_vars

\* the second server from its construction
Init2 == S2_Init /\ S1_Init /\ P2_Init /\ P1_Init
Spec2 == Init2 /\ [][S2_Next(MaxQueue)]_vars

\* the second server from queues one item below capacity
Init2Full == S2_InitNearFull /\ S1_Init /\ P2_Init /\ P1_Init
Spec2Full == Init2Full /\ [][S2_Next(0)]_vars

\* The second server with the one thing its scheduling guarantees: a socket
\* that is CLOSING gets its 'close' event (the handshake ends or the ws close
\* timer fires).  The server sets no timer of its own; every other event is
\* the peer's choice.
S2_CloseCompletes(c) == s2_readyState[c] = "CLOSING" /\ S2_Close(c)
Spec2Live ==
    Init2 /\ [][S2_Next(MaxQueue)]_vars /\ \A c \in Conn : WF_vars(S2_CloseCompletes(c))

\* the photo relay server of src/unnamed/part_002 from its construction
InitP2 == P2_Init /\ S1_Init /\ S2_Init /\ P1_Init
SpecP2 == InitP2 /\ [][P2_Next(MaxQueue)]_vars

\* the relay server of src/unnamed/part_001 from its construction
InitP1 == P1_Init /\ S1_Init /\ S2_Init /\ P2_Init
SpecP1 == InitP1 /\ [][P1_Next(MaxQueue)]_vars

(***************************************************************************)
(*                     Properties of the second server                     *)
(***************************************************************************)
Roles == {"android", "esp32-cam", "esp32-standard"}
S2_Live(c) == s2_readyState[c] \in {"OPEN", "CLOSING"}
S2_Bucket(role) ==
    CASE role = "android" -> s2_androids
      [] role = "esp32-cam" -> s2_espCams
      [] role = "esp32-standard" -> s2_espStandards
      [] OTHER -> {}
HasFrame(frames, type) == \E i \in DOMAIN frames : frames[i].type = type

\* C1: each of clients.androids, clients.espCams and clients.espStandards holds
\* exactly the connections whose latest register named that role and whose
\* close event has not been handled.
C1_RegistryExact ==
    \A role \in Roles :
        S2_Bucket(role) = { c \in Conn : S2_Live(c) /\ s2_clientType[c] = role }

\* C1 witness: a connection registered to a role has been closed, while another
\* that moved from one role to another is still in the registry.
C1_Witness ==
    \E c, d \in Conn :
        /\ s2_readyState[c] = "CLOSED" /\ s2_clientType[c] \in Roles
        /\ s2_last.kind = "register" /\ s2_last.conn = d
        /\ s2_last.was \in Roles /\ s2_last.arg \in Roles /\ s2_last.was # s2_last.arg
        /\ d \in S2_Bucket(s2_last.arg)

C3_QueuesBounded ==
    /\ [](/\ Len(s2_photoQueue) <= MAX_QUEUE_SIZE
          /\ Len(s2_espCamCommandsQueue) <= MAX_QUEUE_SIZE
          /\ Len(s2_espStandardCommandsQueue) <= MAX_QUEUE_SIZE)
    /\ [][ s2_last'.kind \in {"binary", "alert", "command"} =>
            /\ Len(s2_photoQueue) = MAX_QUEUE_SIZE => s2_photoQueue' = s2_photoQueue
            /\ Len(s2_espCamCommandsQueue) = MAX_QUEUE_SIZE =>
                   s2_espCamCommandsQueue' = s2_espCamCommandsQueue
            /\ Len(s2_espStandardCommandsQueue) = MAX_QUEUE_SIZE =>
                   s2_espStandardCommandsQueue' = s2_espStandardCommandsQueue ]_vars

\* C3 witness: a photo (img2) from an ESP32-CAM found photoQueue full with no
\* android to take it and is not at its tail; the Standard queue is full too.
C3_Witness ==
    /\ s2_last.kind = "binary" /\ s2_last.arg = "img2"
    /\ ~ \E a \in s2_androids : S2_Open(a)
    /\ ~ \E d \in s2_espStandards : S2_Open(d)
    /\ Len(s2_photoQueue) = MAX_QUEUE_SIZE
    /\ s2_photoQueue[MAX_QUEUE_SIZE] = "img1"
    /\ Len(s2_espStandardCommandsQueue) = MAX_QUEUE_SIZE

\* C4 as stated: an alert received from a registered device while no android
\* is registered is kept and sent to the next connection that registers as
\* android.
C4_AlertKeptForNextAndroid ==
    [][ \A c \in Conn :
            /\ s2_last'.kind = "register" /\ s2_last'.conn = c
            /\ s2_last'.arg = "android" /\ S2_Open(c)
            => \A m \in s2_awaiting :
                   \E i \in DOMAIN s2_sent'[c] : s2_sent'[c][i] = Msg("alert", << m >>) ]_vars

\* C6: a command of a registered android, handled while no device is registered
\* and both command queues have room, is appended to both queues, and the
\* command_response names 'Queue' for CAM and STD.
C6_CommandQueuedForBoth ==
    [][ \A c \in Conn :
            /\ s2_last'.kind = "command" /\ s2_last'.conn = c
            /\ s2_clientType[c] = "android"
            /\ s2_espCams = {} /\ s2_espStandards = {}
            /\ Len(s2_espCamCommandsQueue) < MAX_QUEUE_SIZE
            /\ Len(s2_espStandardCommandsQueue) < MAX_QUEUE_SIZE
            => \E cmd \in AndroidCommands :
                 LET command == Command(cmd.type, ParamsOrEmpty(cmd.params))
                 IN  /\ cmd.type = s2_last'.arg
                     /\ s2_espCamCommandsQueue' = Append(s2_espCamCommandsQueue, command)
                     /\ s2_espStandardCommandsQueue' =
                            Append(s2_espStandardCommandsQueue, command)
                     /\ s2_sent'[c] =
                            IF S2_Open(c)
                            THEN << Msg("command_response", << cmd.type, "Queue", "Queue" >>) >>
                            ELSE << >> ]_vars

\* C6 witness: network_config from an OPEN android is the sole item of both
\* queues and the android was told Queue, Queue.
C6_Witness ==
    /\ s2_last.kind = "command" /\ s2_last.arg = "network_config"
    /\ S2_Open(s2_last.conn) /\ s2_clientType[s2_last.conn] = "android"
    /\ s2_espCams = {} /\ s2_espStandards = {}
    /\ s2_espCamCommandsQueue = << Command("network_config", "ssid") >>
    /\ s2_espStandardCommandsQueue = << Command("network_config", "ssid") >>
    /\ s2_sent[s2_last.conn] =
           << Msg("command_response", << "network_config", "Queue", "Queue" >>) >>

\* the queue of commands for a device role
S2_QueueOf(role) ==
    IF role = "esp32-cam" THEN s2_espCamCommandsQueue ELSE s2_espStandardCommandsQueue

\* C9 as stated: the turn_on_light derived from an alert or a photo of a device
\* of role R is not sent to any connection of role R and not appended to the
\* command queue of role R.
C9_LightToOtherRoleOnly ==
    [][ \A c \in Conn :
            /\ s2_last'.kind \in {"alert", "binary"} /\ s2_last'.conn = c
            /\ s2_last'.arg # ""
            => /\ \A d \in Conn : s2_clientType[d] = s2_clientType[c] =>
                      ~ HasFrame(s2_sent'[d], "turn_on_light")
               /\ S2_QueueOf(s2_clientType[c])' = S2_QueueOf(s2_clientType[c]) ]_vars

\* C10 as stated: a register naming an unknown device has an error frame sent
\* to the connection before the connection is closed.
C10_ErrorBeforeClose ==
    \A c \in Conn :
        /\ s2_last.kind = "register" /\ s2_last.conn = c /\ s2_last.arg \notin Roles
        /\ HasFrame(s2_sent[c], "close")
        => \E i, j \in DOMAIN s2_sent[c] :
               i < j /\ s2_sent[c][i].type = "error" /\ s2_sent[c][j].type = "close"

(***************************************************************************)
(*                      Properties of the first server                     *)
(***************************************************************************)
S1_Array(role) == IF role = "esp32-cam" THEN s1_espCams ELSE s1_espStandards
S1_QueueOf(role) ==
    IF role = "esp32-cam" THEN s1_espCamCommandsQueue ELSE s1_espStandardCommandsQueue
\* the step handled a retryPendingAlerts: the interval's, or an android's register
S1_RetryStep == s1_last'.kind = "retry" \/ (s1_last'.kind = "register" /\ s1_last'.arg = "android")
S1_TooOld(alert) == s1_now - alert.timestamp > maxAge
\* some OPEN android of the map was sent these frames, in this order
S1_SomeAndroidGot(frames) ==
    \E a \in s1_androids' :
        /\ s1_readyState'[a] = "OPEN"
        /\ \E i \in 0 .. Len(s1_sent'[a]) - Len(frames) :
               SubSeq(s1_sent'[a], i + 1, i + Len(frames)) = frames

\* C5 as stated: an entry of pendingAlerts older than maxAge when
\* retryPendingAlerts runs is not sent to any connection.
C5_TooOldNeverSent ==
    [][ S1_RetryStep =>
          \A i \in DOMAIN s1_pendingAlerts :
              S1_TooOld(s1_pendingAlerts[i]) =>
                  \A a \in Conn :
                      \A k \in DOMAIN s1_sent'[a] :
                          s1_sent'[a][k] # Msg("alert", << s1_pendingAlerts[i].message >>) ]_vars

\* C7 as stated: a command an android sent has, for each device role, been
\* written to an OPEN socket of the role or appended to the role's queue.
C7_CommandSentOrQueued ==
    [][ \A cmd \in AndroidCommands :
          s1_last'.kind = "command" /\ s1_last'.arg = cmd.type =>
              \A role \in DeviceRoles :
                  \/ \E i \in DOMAIN S1_Array(role) :
                        /\ S1_Open(S1_Array(role)[i])
                        /\ HasFrame(s1_sent'[S1_Array(role)[i]], cmd.type)
                  \/ S1_QueueOf(role)' =
                        Append(S1_QueueOf(role), Command(cmd.type, ParamsOrEmpty(cmd.params)))
      ]_vars

\* C8 as stated: every alert or image given to broadcastAlertToAndroids, by a
\* device's frame or by retryPendingAlerts, has been sent to an OPEN android or
\* is in pendingAlerts afterwards.
C8_AlertSentOrPending ==
    [][ /\ s1_last'.kind = "alert" /\ s1_last'.arg # "" =>
              \/ S1_SomeAndroidGot(S1_alertFrames(s1_last'.arg, "null"))
              \/ \E i \in DOMAIN s1_pendingAlerts' :
                     s1_pendingAlerts'[i].message = s1_last'.arg
        /\ s1_last'.kind = "binary" /\ s1_last'.arg # "" =>
              \/ S1_SomeAndroidGot(S1_alertFrames("Photo capturée lors d'une alerte",
                                                  s1_last'.arg))
              \/ \E i \in DOMAIN s1_pendingAlerts' :
                     s1_pendingAlerts'[i].imageData = s1_last'.arg
        /\ S1_RetryStep =>
              \A i \in DOMAIN s1_pendingAlerts :
                  \/ S1_SomeAndroidGot(S1_alertFrames(s1_pendingAlerts[i].message,
                                                      s1_pendingAlerts[i].imageData))
                  \/ \E k \in DOMAIN s1_pendingAlerts' :
                         s1_pendingAlerts'[k] = s1_pendingAlerts[i]
      ]_vars

\* C11 as stated: once a register naming an unrecognised device has been
\* handled, the sending connection is in none of clients.androids,
\* clients.espCams and clients.espStandards.
C11_UnknownInNoBucket ==
    \A c \in Conn :
        s1_last.kind = "register" /\ s1_last.conn = c /\ s1_last.arg \notin Roles
        => /\ c \notin s1_androids
           /\ Count(s1_espCams, c) = 0
           /\ Count(s1_espStandards, c) = 0

\* C12 as stated: a connection that stays open and never sends a register
\* does not stay so for ever: it is eventually closed by the server.
C12_UnregisteredEventuallyClosed ==
    \A c \in Conn :
        (S2_Open(c) /\ s2_clientType[c] = "null")
            ~> ~ (S2_Open(c) /\ s2_clientType[c] = "null")

\* C13: a binary frame or a JSON message other than register, handled on a
\* connection whose clientType is still null, leaves clientType, the three
\* maps and the three queues as they were and writes to no other connection.
C13_UnregisteredIgnored ==
    [][ \A c \in Conn :
            /\ s2_last'.kind \in {"binary", "command", "alert", "ping", "other"}
            /\ s2_last'.conn = c
            /\ s2_clientType[c] = "null"
            => /\ UNCHANGED << s2_clientType, s2_androids, s2_espCams, s2_espStandards,
                               s2_photoQueue, s2_espCamCommandsQueue,
                               s2_espStandardCommandsQueue >>
               /\ \A d \in Conn \ {c} : s2_sent'[d] = << >> ]_vars

\* C13 witness: an alert or a photo of an unregistered connection has been
\* handled while an android that could have taken it was registered and OPEN.
C13_Witness ==
    /\ s2_last.kind \in {"alert", "binary"}
    /\ s2_clientType[s2_last.conn] = "null" /\ S2_Open(s2_last.conn)
    /\ \E a \in s2_androids : S2_Open(a)

\* the per-role words of the command_response written to connection c, if one
\* was written
S2_Responses(c) ==
    { s2_sent'[c][i].body : i \in { j \in DOMAIN s2_sent'[c] :
                                        s2_sent'[c][j].type = "command_response" } }

\* C14 as stated: when the command_response reports 'Queue' for a role the
\* command is in that role's queue after the call, and when it reports 'OK'
\* the command was sent to an OPEN device of that role.
C14_ResponseTrue ==
    [][ \A c \in Conn : \A cmd \in AndroidCommands : \A r \in S2_Responses(c) :
            s2_last'.kind = "command" /\ s2_last'.conn = c /\ s2_last'.arg = cmd.type
            => LET command == Command(cmd.type, ParamsOrEmpty(cmd.params))
                   said(role) == IF role = "esp32-cam" THEN r[2] ELSE r[3]
               IN  \A role \in DeviceRoles :
                       /\ said(role) = "Queue" =>
                              \E i \in DOMAIN S2_QueueOf(role)' :
                                  S2_QueueOf(role)'[i] = command
                       /\ said(role) = "OK" =>
                              \E d \in S2_Bucket(role) :
                                  /\ S2_Open(d)
                                  /\ HasFrame(s2_sent'[d], cmd.type) ]_vars

\* C15 as stated: a message of a registered android that no branch accepts
\* (text that is not JSON, or a type other than register, network_config,
\* security_config and ping) is answered with an error frame to that android,
\* and the connection is not closed.
C15_RejectedGetsError ==
    \A c \in Conn :
        /\ s2_last.kind = "other" /\ s2_last.conn = c
        /\ s2_clientType[c] = "android" /\ S2_Open(c)
        => /\ HasFrame(s2_sent[c], "error")
           /\ ~ HasFrame(s2_sent[c], "close")

\* C16 as stated: when a connection registers as android while photoQueue is
\* not empty, every queued photo is sent to it, in queue order, before the
\* esp_status frame, and photoQueue is empty afterwards.
C16_PhotosBeforeStatus ==
    [][ \A c \in Conn :
            /\ s2_last'.kind = "register" /\ s2_last'.conn = c /\ s2_last'.arg = "android"
            /\ s2_photoQueue # << >>
            => /\ s2_photoQueue' = << >>
               /\ \E k \in DOMAIN s2_sent'[c] :
                      /\ s2_sent'[c][k].type = "esp_status"
                      /\ SelectSeq(SubSeq(s2_sent'[c], 1, k - 1),
                                   LAMBDA f : f.type = "binary") = PhotoFrames(s2_photoQueue)
                      /\ \A j \in DOMAIN s2_sent'[c] :
                             j > k => s2_sent'[c][j].type # "binary" ]_vars

\* C17 as stated: a photo of an ESP32-CAM handled while no android is OPEN and
\* photoQueue holds MAX_QUEUE_SIZE items drops the oldest queued photo and is
\* appended at the tail.
C17_OldestDropped ==
    [][ \A c \in Conn :
            /\ s2_last'.kind = "binary" /\ s2_last'.conn = c /\ s2_last'.arg # ""
            /\ ~ \E a \in s2_androids : S2_Open(a)
            /\ Len(s2_photoQueue) = MAX_QUEUE_SIZE
            => s2_photoQueue' = Append(Tail(s2_photoQueue), s2_last'.arg) ]_vars

\* C18 as stated: pendingAlerts, espCamCommandsQueue and
\* espStandardCommandsQueue of the first server never hold more than 50 items.
C18_S1QueuesBounded ==
    /\ Len(s1_pendingAlerts) <= MAX_QUEUE_SIZE
    /\ Len(s1_espCamCommandsQueue) <= MAX_QUEUE_SIZE
    /\ Len(s1_espStandardCommandsQueue) <= MAX_QUEUE_SIZE

\* the alert and image frames among those written to connection a by the step
S1_AlertsGot(a) ==
    SelectSeq(s1_sent'[a], LAMBDA f : f.type \in {"alert", "binary"})

\* C19: a retryPendingAlerts (the interval's or an android's register) sends
\* a connection nothing but the stored alerts, each once, and an alert it has
\* sent is no longer in pendingAlerts, from where alone sweeps send.
C19_SentAtMostOnce ==
    [][ S1_RetryStep =>
          /\ \A a \in Conn :
                 S1_AlertsGot(a) \in {<< >>, S1_alertFramesOfAll(s1_pendingAlerts)}
          /\ (\E a \in Conn : S1_AlertsGot(a) # << >>) => s1_pendingAlerts' = << >> ]_vars

\* C19 witness: a registering android has been sent a stored alert and
\* pendingAlerts is empty.
C19_Witness ==
    /\ s1_last.kind = "register" /\ s1_last.arg = "android"
    /\ HasFrame(s1_sent[s1_last.conn], "alert")
    /\ s1_pendingAlerts = << >>

(***************************************************************************)
(*               Properties of the server of src/unnamed/part_002          *)
(***************************************************************************)
\* C20: while the close event of some connection registered as esp32-cam has
\* not been handled, clients.espCam refers to such a connection and every
\* esp_status frame reports espCam true; the close of an earlier esp32-cam
\* connection does not clear the slot a later one took.
C20_CamSlotLive ==
    (\E c \in Conn : p2_clientType[c] = "esp32-cam" /\ P2_Live(c)) =>
        /\ p2_espCam # NoSocket
        /\ p2_clientType[p2_espCam] = "esp32-cam"
        /\ P2_Live(p2_espCam)
        /\ \A a \in Conn : \A i \in DOMAIN p2_sent[a] :
               p2_sent[a][i].type = "esp_status" => p2_sent[a][i].body[1] = "true"

(***************************************************************************)
(*              Properties of the first server (continued)                 *)
(***************************************************************************)
\* the close codes the last handled event of the first server passed to
\* socket.close
S1_CloseCodes ==
    UNION { { s1_sent[c][i].body[1] :
                i \in { j \in DOMAIN s1_sent[c] : s1_sent[c][j].type = "close" } } :
            c \in Conn }

\* C21: the close code of a registration timeout is not the close code the
\* register branch uses for an unknown device, and conversely.
C21_CloseCodesDiffer ==
    /\ s1_last.kind = "regtimeout" => S1_codeUnknownDevice \notin S1_CloseCodes
    /\ s1_last.kind = "register" => S1_codeNotRegistered \notin S1_CloseCodes

\* the last handled event was an alert the alert branch accepted
S1_AlertStep == s1_last'.kind = "alert" /\ s1_last'.arg # ""
\* the role the alert branch derives its turn_on_light for
S1_OtherRole(c) == IF s1_clientType[c] = "esp32-cam" THEN "esp32-standard" ELSE "esp32-cam"

\* C22: an alert from a device of one role, while no socket of the other
\* role is OPEN (none registered included), appends exactly one
\* turn_on_light to the command queue of the other role.
C22_OneLightQueued ==
    [][ \A c \in Conn, other \in DeviceRoles :
          ( /\ S1_AlertStep
            /\ s1_last'.conn = c
            /\ other = S1_OtherRole(c)
            /\ \A i \in DOMAIN S1_Array(other) : ~ S1_Open(S1_Array(other)[i]) ) =>
              S1_QueueOf(other)' =
                  Append(S1_QueueOf(other), Command("turn_on_light", "alert_detected"))
      ]_vars

\* C23: a binary frame from a registered esp32-cam derives a turn_on_light as
\* a JSON alert does: every OPEN esp32-standard is sent it or, when there is
\* none, it is appended to espStandardCommandsQueue.
C23_PhotoTurnsOnLight ==
    [][ (s1_last'.kind = "binary" /\ s1_last'.arg # "") =>
          LET open == { i \in DOMAIN s1_espStandards : S1_Open(s1_espStandards[i]) }
          IN  IF open # {}
              THEN \A i \in open :
                      HasFrame(s1_sent'[s1_espStandards[i]], "turn_on_light")
              ELSE s1_espStandardCommandsQueue' =
                      Append(s1_espStandardCommandsQueue,
                             Command("turn_on_light", "alert_detected"))
      ]_vars

(***************************************************************************)
(*              Properties of the second server (continued)                *)
(***************************************************************************)
\* C24: a register as esp32-cam or esp32-standard sends the connection the
\* `registered` reply and then every command of that role's queue in queue
\* order, leaves that queue empty, and leaves the other role's queue and
\* photoQueue as they were.
C24_QueueFlushedInOrder ==
    [][ \A c \in Conn, role \in DeviceRoles :
          (s2_last' = Event("register", c, role, s2_clientType[c])) =>
              /\ s2_sent'[c] = << Msg("registered", << >>) >>
                                   \o CommandFrames(S2_QueueOf(role))
              /\ S2_QueueOf(role)' = << >>
              /\ \A other \in DeviceRoles \ {role} :
                     S2_QueueOf(other)' = S2_QueueOf(other)
              /\ s2_photoQueue' = s2_photoQueue
      ]_vars

\* the positions of the esp_status frames among the frames of one event
S2_StatusAt(frames) == { i \in DOMAIN frames : frames[i].type = "esp_status" }
\* the esp_status body that tells the presence the registry holds after a step
S2_PresenceNow ==
    << BoolStr(s2_espCams' # {}), BoolStr(s2_espStandards' # {}),
       BoolStr(s2_espCams' # {} \/ s2_espStandards' # {}) >>

\* C25: the last esp_status an OPEN registered android was sent tells the
\* presence of both device roles.  Step by step: an event that changes the
\* presence of a role, or registers the android, sends the android an
\* esp_status, and the last esp_status an event sends tells the presence the
\* registry holds after the event.
C25_StatusNeverStale ==
    [][ \A a \in Conn :
          (a \in s2_androids' /\ s2_readyState'[a] = "OPEN") =>
              /\ ( \/ (s2_espCams' # {}) # (s2_espCams # {})
                    \/ (s2_espStandards' # {}) # (s2_espStandards # {})
                    \/ a \notin s2_androids )
                  => S2_StatusAt(s2_sent'[a]) # {}
              /\ \A i \in S2_StatusAt(s2_sent'[a]) :
                     (\A j \in S2_StatusAt(s2_sent'[a]) : j <= i) =>
                         s2_sent'[a][i].body = S2_PresenceNow
      ]_vars

(***************************************************************************)
(*               Properties of the server of src/unnamed/part_001          *)
(***************************************************************************)
\* C26: while the close event of a connection held by clients.espCams (resp.
\* clients.espStandards) is handled, every OPEN android of the map is sent
\* an esp_status telling espCam (resp. espStandard) false.
C26_CloseNotifiesAndroids ==
    [][ \A c \in Conn :
          (p1_last' = Event("close", c, "", "")) =>
              \A a \in p1_androids' :
                 p1_readyState'[a] = "OPEN" =>
                    /\ Includes(p1_espCams, c) =>
                          \E i \in DOMAIN p1_sent'[a] :
                             p1_sent'[a][i] = Msg("esp_status", << "espCam", "false" >>)
                    /\ Includes(p1_espStandards, c) =>
                          \E i \in DOMAIN p1_sent'[a] :
                             p1_sent'[a][i] = Msg("esp_status", << "espStandard", "false" >>)
      ]_vars

(***************************************************************************)
(*              Properties of the first server (timers, retry)             *)
(***************************************************************************)
\* C27: the registration timer closes only a connection that has not
\* registered: once a register of the connection is handled its timer is
\* cancelled; once the close event of a connection is handled its
\* registration timer and its ping interval are cancelled, and no callback
\* of either runs on it.
C27_TimersCancelled ==
    /\ \A c \in Conn :
          /\ s1_clientType[c] # "null" => s1_regTimer[c] # "armed"
          /\ s1_readyState[c] = "CLOSED" =>
                 s1_regTimer[c] # "armed" /\ s1_pingTimer[c] # "on"
    /\ s1_last.kind = "regtimeout" =>
          /\ s1_readyState[s1_last.conn] # "CLOSED"
          /\ HasFrame(s1_sent[s1_last.conn], "close") =>
                 s1_clientType[s1_last.conn] = "null"
    /\ s1_last.kind = "pinginterval" => s1_readyState[s1_last.conn] # "CLOSED"

\* a registered connection has been closed and the registration timer of
\* another, still unregistered, has just closed it
C27_Witness ==
    \E c, d \in Conn :
        /\ s1_clientType[c] \in Roles /\ s1_readyState[c] = "CLOSED"
        /\ s1_last = Event("regtimeout", d, "", "")
        /\ HasFrame(s1_sent[d], "close")

\* C28: a retryPendingAlerts sweep of the interval that finds no android in
\* the map, or pendingAlerts empty, changes nothing and sends nothing.
C28_IdleSweepIsNoOp ==
    [][ (s1_last'.kind = "retry" /\ (s1_androids = {} \/ s1_pendingAlerts = << >>)) =>
          /\ s1_pendingAlerts' = s1_pendingAlerts
          /\ UNCHANGED << s1_androids, s1_espCams, s1_espStandards, s1_clientType,
                          s1_readyState, s1_espCamCommandsQueue,
                          s1_espStandardCommandsQueue >>
          /\ s1_sent' = NoneSent
      ]_vars

\* a sweep has just run while an alert was pending and the map was empty
C28_Witness ==
    s1_last.kind = "retry" /\ s1_pendingAlerts # << >> /\ s1_androids = {}

\* the binary frames and alert envelopes among the frames of one event
S1_AlertTraffic(frames) == SelectSeq(frames, LAMBDA f : f.type \in {"binary", "alert"})
S1_Envelopes(frames) == SelectSeq(frames, LAMBDA f : f.type = "alert")

\* C29: a retryPendingAlerts that drains pendingAlerts sends every OPEN
\* android of the map one alert envelope per entry, in the order of the
\* entries in pendingAlerts, and the image of an entry that carries one
\* right before the envelope of that entry (and no other binary frame).
C29_DrainedInFifoOrder ==
    [][ (S1_RetryStep /\ s1_pendingAlerts # << >> /\ s1_androids' # {}) =>
          \A a \in s1_androids' :
             s1_readyState'[a] = "OPEN" =>
                LET F == S1_AlertTraffic(s1_sent'[a])
                    A == S1_Envelopes(F)
                    \* the entry whose envelope is the first after position k
                    entryAt(k) == 1 + Cardinality({ j \in 1 .. k - 1 : F[j].type = "alert" })
                IN  /\ Len(A) = Len(s1_pendingAlerts)
                    /\ \A i \in DOMAIN A :
                           A[i] = Msg("alert", << s1_pendingAlerts[i].message >>)
                    /\ \A k \in DOMAIN F :
                           F[k].type = "binary" =>
                              /\ k < Len(F) /\ F[k + 1].type = "alert"
                              /\ F[k].body = << s1_pendingAlerts[entryAt(k)].imageData >>
                    /\ Len(F) - Len(A) =
                           Cardinality({ i \in DOMAIN s1_pendingAlerts :
                                            s1_pendingAlerts[i].imageData # "null" })
      ]_vars

\* an android has just been sent two drained entries that differ, one of
\* them with its image
C29_Witness ==
    \E a \in s1_androids :
        /\ s1_last.kind \in {"retry", "register"}
        /\ Len(S1_Envelopes(s1_sent[a])) >= 2
        /\ S1_Envelopes(s1_sent[a])[1] # S1_Envelopes(s1_sent[a])[2]
        /\ HasFrame(s1_sent[a], "binary")

\* the entries of the registry of the first server that refer to socket c
S1_Entries(c) ==
    (IF c \in s1_androids THEN 1 ELSE 0) + Count(s1_espCams, c) + Count(s1_espStandards, c)

\* C30: a connection occurs at most once in clients.androids, clients.espCams
\* and clients.espStandards taken together, however often it registers.
C30_AtMostOneEntry == \A c \in Conn : S1_Entries(c) <= 1

(***************************************************************************)
(*          Properties of the second server (queues and senders)           *)
(***************************************************************************)
\* the OPEN sockets a map of the registry holds
S2_OpenIn(members) == { c \in members : S2_Open(c) }

\* C31: after every handled event, a queue holds something only while its
\* recipients have no OPEN socket in the registry: espCamCommandsQueue for
\* clients.espCams, espStandardCommandsQueue for clients.espStandards,
\* photoQueue for clients.androids.
C31_NothingBehindLiveRecipient ==
    /\ s2_espCamCommandsQueue # << >> => S2_OpenIn(s2_espCams) = {}
    /\ s2_espStandardCommandsQueue # << >> => S2_OpenIn(s2_espStandards) = {}
    /\ s2_photoQueue # << >> => S2_OpenIn(s2_androids) = {}

\* an OPEN android has just registered and been sent the queued photos,
\* while commands still wait for ESPs that are not there
C31_Witness ==
    \E a \in S2_OpenIn(s2_androids) :
        /\ s2_last = Event("register", a, "android", "null")
        /\ HasFrame(s2_sent[a], "binary")
        /\ s2_photoQueue = << >>
        /\ s2_espCamCommandsQueue # << >>
        /\ S2_OpenIn(s2_espCams) = {}

\* the connections the last handled event wrote a binary frame to
S2_GotBinary == { a \in Conn : HasFrame(s2_sent'[a], "binary") }

\* C32: a binary frame accepted from an esp32-cam is forwarded to every OPEN
\* android of the registry or, when there is none, appended to photoQueue,
\* never both; the queued photos are all sent, in queue order, to the first
\* connection that registers as android, and to no other connection, and
\* are off the queue afterwards.
C32_PhotoForwardedOrQueuedOnce ==
    [][ \A c \in Conn :
          /\ \A photo \in Photos :
                (s2_last' = Event("binary", c, photo, "")) =>
                    IF S2_OpenIn(s2_androids) # {}
                    THEN /\ S2_GotBinary = S2_OpenIn(s2_androids)
                         /\ s2_photoQueue' = s2_photoQueue
                    ELSE /\ S2_GotBinary = {}
                         /\ s2_photoQueue' = Append(s2_photoQueue, photo)
          /\ (s2_last'.kind = "register" /\ s2_last'.conn = c /\ s2_last'.arg = "android"
               /\ s2_photoQueue # << >>) =>
                    /\ S2_GotBinary = {c}
                    /\ SelectSeq(s2_sent'[c], LAMBDA f : f.type = "binary")
                          = PhotoFrames(s2_photoQueue)
                    /\ s2_photoQueue' = << >>
      ]_vars

\* C33: a network_config or security_config from a connection whose
\* clientType is not android, and a binary frame from a connection whose
\* clientType is not esp32-cam, leave the command queues and photoQueue as
\* they were and send nothing to any connection.
C33_OnlyRoleHoldersAct ==
    [][ \A c \in Conn :
          ( \/ s2_last'.kind = "command" /\ s2_last'.conn = c
                  /\ s2_clientType[c] # "android"
            \/ s2_last'.kind = "binary" /\ s2_last'.conn = c
                  /\ s2_clientType[c] # "esp32-cam" ) =>
              /\ UNCHANGED << s2_espCamCommandsQueue, s2_espStandardCommandsQueue,
                              s2_photoQueue >>
              /\ s2_sent' = NoneSent
      ]_vars

\* a command of an OPEN connection registered as a device has just been
\* handled while the other connection, an OPEN android, could have been
\* answered
C33_Witness ==
    \E c, a \in Conn :
        /\ s2_last.kind = "command" /\ s2_last.conn = c
        /\ s2_clientType[c] \in DeviceRoles /\ S2_Open(c)
        /\ a \in S2_OpenIn(s2_androids)
====
